---- MODULE Spec2Model ----
(***************************************************************************)
(* Model of the DeSmuMe Wii host profiler, src/source/src/utils/profiler:  *)
(* a fixed pool of named timing scopes guarded by one spinlock, the RAII   *)
(* ScopedTimer that folds one sample into a scope, and DumpNow, which      *)
(* snapshots the scopes, ranks them and appends JSON lines to a rotated    *)
(* log file.                                                               *)
(*                                                                         *)
(* Conventions.  A ScopeStats pointer is the 0-based index of its slot in  *)
(* g_fixed_scope_pool; NULLPTR is the null pointer.  The static arrays are *)
(* kept as the prefix that has ever been written (slots beyond it hold the *)
(* values of the default constructor).  Scope name n stands for the string   *)
(* literal of n letters 'a', so that numeric order is strcmp order and the *)
(* name's strlen is n.  Every thread runs the profiler's functions one     *)
(* statement group at a time: its position is pc[t], its locals th[t].     *)
(***************************************************************************)
EXTENDS Integers, Sequences, FiniteSets, Bags, TLC

\* ---------------------------------------------------------------- constants
\* profiler.cpp:31-37
ROTATE_BYTES == 2097152
MAX_ROTATE == 3
DUMP_INTERVAL_SEC == 10
MAX_DUMP_SCOPES == 20
FIXED_SCOPE_POOL_SIZE == 512

\* The host runs two threads: the main thread and draw_thread (main.cpp).
NumThreads == 2
Threads == 1..NumThreads
\* the thread of main(), whose loop drives the dumps
MainThread == 1

\* ------------------------------------------------------------------- bounds
\* now_ns() returns a value in 0..MaxNs
MaxNs == 2
\* calls each thread may start
MaxOps == 2
\* distinct scope names used by the call sites of the small scenarios
MaxNames == 2
\* time(NULL) is in 0..MaxWall seconds
MaxWall == 11
\* the longest registry of which every creation order is tried
MaxSnap == 3

ClockNs == 0..MaxNs
Names == 1..MaxNames

NULLPTR == 0 - 1
NoName == 0
NoThread == 0

VARIABLES
    \* registry (profiler.cpp:40-46)
    g_fixed_scope_pool,     \* sequence of ScopeStats, slot k is element k+1
    g_fixed_scope_used,     \* set of the slots whose flag is true
    g_fixed_scope_count,
    g_scope_ptrs,           \* sequence of slots, position i is element i+1
    g_scope_ptrs_count,
    g_spinlock,             \* 0 free, 1 taken (profiler.cpp:49)
    \* lifecycle (profiler.cpp:66-67, 330)
    g_running,
    g_last_dump,
    enabled,
    \* the video thread, its mutex and its stop flag (main.cpp:84-86)
    video,
    \* environment: time(NULL), the log directory, the log generations
    wall,
    fs_ok,                  \* the storage answers calls (an SD card can be pulled and put back)
    fs_dir,
    fs_size,                \* [0..MAX_ROTATE -> size in bytes, or NoFile]
    \* threads
    pc,
    th,
    \* history (not program state)
    holder,                 \* the thread that took the spinlock last, or NoThread
    hist,                   \* per slot, per thread: bag of the elapsed values folded since the slot was initialised
    committed,              \* per slot: the (calls,total,max) triples held, at instants with no fold in
                            \* progress, since the oldest snapshot still being taken began
    written                 \* per thread: the outcome of its latest dump

regVars == <<g_fixed_scope_pool, g_fixed_scope_used, g_fixed_scope_count,
             g_scope_ptrs, g_scope_ptrs_count>>
lockVars == <<g_spinlock, holder>>
lifeVars == <<g_running, g_last_dump, enabled, video>>
envVars == <<wall, fs_ok, fs_dir, fs_size>>
histVars == <<hist, committed>>
vars == <<regVars, lockVars, lifeVars, envVars, pc, th, histVars, written>>

NoFile == 0 - 1

\* ------------------------------------------------------------------ helpers
\* ScopeStats() default constructor (profiler.h:29)
ScopeStats0 == [name |-> NoName, calls |-> 0, total_ns |-> 0, max_ns |-> 0]

\* g_fixed_scope_pool[k]
Slot(k) == IF k + 1 <= Len(g_fixed_scope_pool) THEN g_fixed_scope_pool[k + 1] ELSE ScopeStats0

\* array store a[k] = v on a prefix-sequence
Store(a, k, v) == IF k + 1 <= Len(a) THEN [a EXCEPT ![k + 1] = v] ELSE Append(a, v)

\* the counters of an entry
Triple(s) == <<s.calls, s.total_ns, s.max_ns>>

Sign(x) == IF x < 0 THEN 0 - 1 ELSE IF x = 0 THEN 0 ELSE 1

Max2(a, b) == IF a > b THEN a ELSE b
Min2(a, b) == IF a < b THEN a ELSE b

\* main.cpp:84-86, and the mutex object behind the handle.  video.used is
\* history: what the handle that the draw thread passed to its latest
\* LWP_MutexLock or LWP_MutexUnlock call referred to.
Video0 == [vidthread |-> FALSE,     \* vidthread # LWP_THREAD_NULL
           vidmutex |-> FALSE,      \* vidmutex # LWP_MUTEX_NULL
           abort_thread |-> FALSE,
           alive |-> FALSE,         \* the mutex object exists
           owner |-> NoThread,      \* the thread that has it locked
           quit_game |-> FALSE,     \* main.cpp:90
           used |-> "none"]

\* spin_lock: the test-and-set succeeds only on a free lock; a thread that
\* finds it taken keeps spinning (no step).
spin_lock_nowait(t) == g_spinlock' = 1 /\ holder' = t

spin_lock(t) == g_spinlock = 0 /\ g_spinlock' = 1 /\ holder' = t

spin_unlock(t) == g_spinlock' = 0 /\ holder' = NoThread

\* thread t is between taking the lock in DumpNow and the ranking of its copies
Snapshotting(t) == pc[t] \in {"dn_snapshot", "dn_copy", "dn_rank"}

\* thread-local initial values
Th0 == [ops |-> MaxOps,
        op |-> "none",          \* the function of the profiler the thread called last
        name |-> NoName,        \* GetScopeByName argument
        found |-> NULLPTR,      \* the handle the thread's last GetScopeByName returned
        found_name |-> NoName,  \* the name it was asked for
        live |-> FALSE,         \* a ScopedTimer object exists
        stats |-> NULLPTR,      \* ScopedTimer::stats
        start_ns |-> 0,         \* ScopedTimer::start_ns
        elapsed |-> 0,
        drift |-> 1,            \* how the clock moved during the timer: -1 back, 0 not, 1 on
        tmp |-> 0,              \* register holding a loaded counter
        caller |-> "none",      \* who called DumpNow
        snapshot |-> <<>>,
        copies |-> <<>>,
        total_ns_all |-> 0,
        idx |-> <<>>,
        ri |-> 0,               \* loop index of rotate_logs_if_needed
        f |-> NoFile,           \* FILE *f: the generation the open stream is attached to
        tnow |-> 0,
        limit |-> 0,
        recs |-> <<>>,          \* the lines written to f so far
        fs0 |-> <<>>,           \* the log files as they were when DumpNow began
        pre |-> 0,              \* inside PrecreateScopes: the number of the next call it makes
        pool0 |-> <<>>,         \* the entries as they were when ShutdownProfiler was called
        e |-> FALSE,            \* LegacyProfiler::SetEnabled argument
        i |-> 0,                \* loop index of the copy and fprintf loops
        fld |-> 0]              \* the next field the copy loop reads

\* --------------------------------------------------------- GetScopeByName
\* the search loop, lines 97-103: the first registered entry with that name
FindScopeNever(n) == NULLPTR

FindScope(n) ==
    LET hits == {i \in 0..(g_scope_ptrs_count - 1) : Slot(g_scope_ptrs[i + 1]).name = n}
    IN IF hits = {} THEN NULLPTR
       ELSE g_scope_ptrs[(CHOOSE i \in hits : \A j \in hits : i <= j) + 1]

\* line 106
PoolExhaustedOffByOne == g_fixed_scope_count > FIXED_SCOPE_POOL_SIZE

PoolExhausted == g_fixed_scope_count >= FIXED_SCOPE_POOL_SIZE

\* the caller's locals after GetScopeByName has returned h: a thread keeps
\* the handle, PrecreateScopes drops it (lines 289-301)
GetReturn(t, h) ==
    IF th[t].pre > 0 THEN [th[t] EXCEPT !.name = NoName]
    ELSE [th[t] EXCEPT !.found = h, !.found_name = th[t].name, !.name = NoName]

\* where GetScopeByName returns to
GetReturnPc(t) == IF th[t].pre > 0 THEN "ps_next" ELSE "idle"

GetScopeByName_call(t, n) ==
    /\ pc[t] = "idle" /\ th[t].ops > 0
    /\ pc' = [pc EXCEPT ![t] = "gs_lock"]
    /\ th' = [th EXCEPT ![t].ops = @ - 1, ![t].op = "GetScopeByName", ![t].name = n]
    /\ UNCHANGED <<regVars, lockVars, lifeVars, envVars, histVars, written>>

\* line 94
GetScopeByName_lock(t) ==
    /\ pc[t] = "gs_lock"
    /\ spin_lock(t)
    /\ pc' = [pc EXCEPT ![t] = "gs_search"]
    /\ UNCHANGED <<regVars, lifeVars, envVars, th, histVars, written>>

\* lines 97-103
GetScopeByName_search_held(t) ==
    /\ pc[t] = "gs_search"
    /\ LET hit == FindScope(th[t].name)
       IN IF hit # NULLPTR
          THEN /\ th' = [th EXCEPT ![t] = GetReturn(t, hit)]
               /\ pc' = [pc EXCEPT ![t] = GetReturnPc(t)]
          ELSE /\ pc' = [pc EXCEPT ![t] = "gs_alloc"]
               /\ UNCHANGED th
    /\ UNCHANGED <<regVars, lockVars, lifeVars, envVars, histVars, written>>

GetScopeByName_search(t) ==
    /\ pc[t] = "gs_search"
    /\ LET hit == FindScope(th[t].name)
       IN IF hit # NULLPTR
          THEN /\ spin_unlock(t)
               /\ th' = [th EXCEPT ![t] = GetReturn(t, hit)]
               /\ pc' = [pc EXCEPT ![t] = GetReturnPc(t)]
          ELSE /\ pc' = [pc EXCEPT ![t] = "gs_alloc"]
               /\ UNCHANGED <<th, lockVars>>
    /\ UNCHANGED <<regVars, lifeVars, envVars, histVars, written>>

\* lines 106-127
GetScopeByName_alloc(t) ==
    /\ pc[t] = "gs_alloc"
    /\ IF PoolExhausted
       THEN /\ th' = [th EXCEPT ![t] = GetReturn(t, NULLPTR)]
            /\ UNCHANGED <<regVars, histVars>>
       ELSE LET k == g_fixed_scope_count
                s == [name |-> th[t].name, calls |-> 0, total_ns |-> 0, max_ns |-> 0]
            IN /\ g_fixed_scope_pool' = Store(g_fixed_scope_pool, k, s)
               /\ g_fixed_scope_used' = g_fixed_scope_used \cup {k}
               /\ g_fixed_scope_count' = k + 1
               /\ g_scope_ptrs' = Store(g_scope_ptrs, g_scope_ptrs_count, k)
               /\ g_scope_ptrs_count' = g_scope_ptrs_count + 1
               /\ hist' = Store(hist, k, [u \in Threads |-> EmptyBag])
               /\ committed' = Store(committed, k,
                                     (IF k + 1 <= Len(committed) /\ \E u \in Threads : Snapshotting(u)
                                      THEN committed[k + 1] ELSE {}) \cup {<<0, 0, 0>>})
               /\ th' = [th EXCEPT ![t] = GetReturn(t, k)]
    /\ spin_unlock(t)
    /\ pc' = [pc EXCEPT ![t] = GetReturnPc(t)]
    /\ UNCHANGED <<lifeVars, envVars, written>>

\* ------------------------------------------------------------- ScopedTimer
\* line 136
ElapsedWrapping(start, end) == IF end >= start THEN end - start ELSE MaxNs + 1 + end - start

Elapsed(start, end) == IF end > start THEN end - start ELSE 0

\* line 141
FoldTotalDropped(total, e) == total

FoldTotal(total, e) == total + e

\* line 142
FoldMaxLast(mx, e) == e

FoldMax(mx, e) == IF e > mx THEN e ELSE mx

\* line 131: ScopedTimer(s) with s the handle the thread holds
ScopedTimer_ctor(t) ==
    /\ pc[t] = "idle" /\ th[t].ops > 0 /\ ~th[t].live
    /\ \E now \in ClockNs :
          th' = [th EXCEPT ![t].ops = @ - 1, ![t].live = TRUE,
                           ![t].stats = th[t].found, ![t].start_ns = now]
    /\ UNCHANGED <<regVars, lockVars, lifeVars, envVars, pc, histVars, written>>

\* lines 134-136
ScopedTimer_dtor_unchecked(t) ==
    /\ pc[t] = "idle" /\ th[t].live
    /\ \E end \in ClockNs :
          /\ th' = [th EXCEPT ![t].elapsed = Elapsed(th[t].start_ns, end), ![t].start_ns = 0,
                               ![t].drift = Sign(end - th[t].start_ns)]
          /\ pc' = [pc EXCEPT ![t] = "st_lock"]
    /\ UNCHANGED <<regVars, lockVars, lifeVars, envVars, histVars, written>>

ScopedTimer_dtor(t) ==
    /\ pc[t] = "idle" /\ th[t].live
    /\ IF th[t].stats = NULLPTR
       THEN /\ th' = [th EXCEPT ![t].live = FALSE, ![t].start_ns = 0]
            /\ UNCHANGED pc
       ELSE \E end \in ClockNs :
               /\ th' = [th EXCEPT ![t].elapsed = Elapsed(th[t].start_ns, end), ![t].start_ns = 0,
                                    ![t].drift = Sign(end - th[t].start_ns)]
               /\ pc' = [pc EXCEPT ![t] = "st_lock"]
    /\ UNCHANGED <<regVars, lockVars, lifeVars, envVars, histVars, written>>

\* line 139
ScopedTimer_lock(t) ==
    /\ pc[t] = "st_lock"
    /\ spin_lock(t)
    /\ pc' = [pc EXCEPT ![t] = "st_calls_ld"]
    /\ UNCHANGED <<regVars, lifeVars, envVars, th, histVars, written>>

\* line 140, load
ScopedTimer_calls_ld(t) ==
    /\ pc[t] = "st_calls_ld"
    /\ th' = [th EXCEPT ![t].tmp = Slot(th[t].stats).calls]
    /\ pc' = [pc EXCEPT ![t] = "st_calls_st"]
    /\ UNCHANGED <<regVars, lockVars, lifeVars, envVars, histVars, written>>

\* line 140, store
ScopedTimer_calls_st_twice(t) ==
    /\ pc[t] = "st_calls_st"
    /\ g_fixed_scope_pool' = [g_fixed_scope_pool EXCEPT ![th[t].stats + 1].calls = th[t].tmp + 2]
    /\ pc' = [pc EXCEPT ![t] = "st_total_ld"]
    /\ UNCHANGED <<g_fixed_scope_used, g_fixed_scope_count, g_scope_ptrs, g_scope_ptrs_count,
                   lockVars, lifeVars, envVars, th, histVars, written>>

ScopedTimer_calls_st(t) ==
    /\ pc[t] = "st_calls_st"
    /\ g_fixed_scope_pool' = [g_fixed_scope_pool EXCEPT ![th[t].stats + 1].calls = th[t].tmp + 1]
    /\ pc' = [pc EXCEPT ![t] = "st_total_ld"]
    /\ UNCHANGED <<g_fixed_scope_used, g_fixed_scope_count, g_scope_ptrs, g_scope_ptrs_count,
                   lockVars, lifeVars, envVars, th, histVars, written>>

\* line 141, load
ScopedTimer_total_ld(t) ==
    /\ pc[t] = "st_total_ld"
    /\ th' = [th EXCEPT ![t].tmp = Slot(th[t].stats).total_ns]
    /\ pc' = [pc EXCEPT ![t] = "st_total_st"]
    /\ UNCHANGED <<regVars, lockVars, lifeVars, envVars, histVars, written>>

\* line 141, store
ScopedTimer_total_st(t) ==
    /\ pc[t] = "st_total_st"
    /\ g_fixed_scope_pool' = [g_fixed_scope_pool EXCEPT
                                ![th[t].stats + 1].total_ns = FoldTotal(th[t].tmp, th[t].elapsed)]
    /\ pc' = [pc EXCEPT ![t] = "st_max"]
    /\ UNCHANGED <<g_fixed_scope_used, g_fixed_scope_count, g_scope_ptrs, g_scope_ptrs_count,
                   lockVars, lifeVars, envVars, th, histVars, written>>

\* lines 142-144: the max update, the unlock, and the end of the timer
ScopedTimer_max(t) ==
    /\ pc[t] = "st_max"
    /\ LET k == th[t].stats
           e == th[t].elapsed
           s == Slot(k)
           m == FoldMax(s.max_ns, e)
       IN /\ g_fixed_scope_pool' = [g_fixed_scope_pool EXCEPT ![k + 1].max_ns = m]
          /\ hist' = [hist EXCEPT ![k + 1][t] = @ (+) SetToBag({e})]
          /\ committed' = [committed EXCEPT ![k + 1] =
                               (IF \E u \in Threads : Snapshotting(u) THEN @ ELSE {})
                                   \cup {<<s.calls, s.total_ns, m>>}]
    /\ spin_unlock(t)
    /\ th' = [th EXCEPT ![t].live = FALSE, ![t].stats = NULLPTR, ![t].elapsed = 0, ![t].tmp = 0,
                        ![t].drift = 1]
    /\ pc' = [pc EXCEPT ![t] = "idle"]
    /\ UNCHANGED <<g_fixed_scope_used, g_fixed_scope_count, g_scope_ptrs, g_scope_ptrs_count,
                   lifeVars, envVars, written>>

\* ----------------------------------------------------------------- DumpNow
\* what a dump has done so far (history kept until the thread's next dump):
\* how far it got, how many entries it copied and how many records it wrote
NoDump == [status |-> "none", n |-> 0, count |-> 0,
           cycle |-> FALSE,     \* it went through a rotation cycle
           after |-> FALSE]     \* the thread's dump before it went through one

\* back in the caller after DumpNow returns
ReturnPc(t) == IF th[t].caller = "ShutdownProfiler" THEN "sd_lock" ELSE "idle"

\* DumpNow's locals are dead after it returns
DumpLocals0(t) == [th[t] EXCEPT !.caller = "none", !.snapshot = <<>>, !.copies = <<>>,
                                !.total_ns_all = 0, !.idx = <<>>, !.ri = 0, !.f = NoFile,
                                !.tnow = 0, !.limit = 0, !.recs = <<>>, !.fs0 = <<>>,
                                !.i = 0, !.fld = 0]

\* lines 218-219
RECURSIVE SumTotalTruncated(_, _)
SumTotalTruncated(copies, i) ==
    IF i > Len(copies) \/ i > MAX_DUMP_SCOPES THEN 0
    ELSE copies[i].total_ns + SumTotalTruncated(copies, i + 1)

RECURSIVE SumTotal(_, _)
SumTotal(copies, i) == IF i > Len(copies) THEN 0 ELSE copies[i].total_ns + SumTotal(copies, i + 1)

\* line 227: entry a is taken in preference to the current best b
RanksAboveAscending(a, b) == a.total_ns < b.total_ns

RanksAbove(a, b) == a.total_ns > b.total_ns

\* lines 226-228: the inner loop from j on (positions are 1-based here)
RECURSIVE SelectBest(_, _, _, _)
SelectBest(copies, idx, j, best) ==
    IF j > Len(idx) THEN best
    ELSE SelectBest(copies, idx, j + 1,
                    IF RanksAbove(copies[idx[j]], copies[idx[best]]) THEN j ELSE best)

\* line 229
Swap(idx, i, b) == [idx EXCEPT ![i] = idx[b], ![b] = idx[i]]

\* lines 224-230: the outer loop from i on
RECURSIVE SelectionSort(_, _, _)
SelectionSort(copies, idx, i) ==
    IF i > Len(idx) THEN idx
    ELSE SelectionSort(copies, Swap(idx, i, SelectBest(copies, idx, i + 1, i)), i + 1)

\* lines 222-230
SortedIdx(copies) == SelectionSort(copies, [k \in 1..Len(copies) |-> k], 1)

\* lines 248-249
DumpLimitUnclamped(n) == n

DumpLimit(n) == IF n > MAX_DUMP_SCOPES THEN MAX_DUMP_SCOPES ELSE n

\* number of decimal digits of n >= 0, as %llu prints it
RECURSIVE Digits(_)
Digits(n) == IF n < 10 THEN 1 ELSE 1 + Digits(n \div 10)

\* lines 253-259: the values of one StatCopy that fprintf is given
Record(sc, grand, tnow) ==
    [scope |-> sc.name, calls |-> sc.calls, total_ns |-> sc.total_ns, max_ns |-> sc.max_ns,
     grand |-> grand, timestamp |-> tnow]

\* num / den as printf prints a double with a fixed number of decimals, in
\* units of the last decimal: the nearest integer, and either neighbour when
\* num / den lies halfway, where the binary value of the double decides
Nearest(num, den) ==
    LET q == num \div den
        r == num % den
    IN IF 2 * r < den THEN {q} ELSE IF 2 * r > den THEN {q + 1} ELSE {q, q + 1}

\* lines 255, 258: total_ns / 1000000.0 under %.3f, in thousandths of a ms
Ms3(ns) == Nearest(ns, 1000)

\* line 256 under %.6f, in millionths of a ms
AvgMsWrong(total_ns, calls) == Nearest(total_ns, calls + 1)

AvgMs(total_ns, calls) == IF calls = 0 THEN {0} ELSE Nearest(total_ns, calls)

\* line 259 under %.3f, in thousandths of a percent
PctTotal(total_ns, grand) ==
    IF grand = 0 THEN {0}
    ELSE {100000 * (total_ns \div grand) + f : f \in Nearest(100000 * (total_ns % grand), grand)}

\* lines 261-270: the lines fprintf can write for record r
Lines(r) ==
    {[scope |-> r.scope, calls |-> r.calls, total_ns |-> r.total_ns, max_ns |-> r.max_ns,
      grand |-> r.grand, timestamp |-> r.timestamp,
      total_ms |-> tm, avg_ms |-> am, max_ms |-> mm, pct_total |-> pt] :
        tm \in Ms3(r.total_ns), am \in AvgMs(r.total_ns, r.calls),
        mm \in Ms3(r.max_ns), pt \in PctTotal(r.total_ns, r.grand)}

\* the bytes of a line: the literal text of the format (82 bytes with the
\* newline), the name, the call count, the four %.3f / %.6f numbers and the
\* 20-byte timestamp
LineBytes(l) ==
    82 + l.scope + Digits(l.calls)
       + (Digits(l.total_ms \div 1000) + 4) + (Digits(l.avg_ms \div 1000000) + 7)
       + (Digits(l.max_ms \div 1000) + 4) + (Digits(l.pct_total \div 1000) + 4) + 20

\* line 192, called directly
DumpNow_call(t) ==
    /\ pc[t] = "idle" /\ th[t].ops > 0
    /\ pc' = [pc EXCEPT ![t] = "dn_lock"]
    /\ th' = [th EXCEPT ![t].ops = @ - 1, ![t].op = "DumpNow", ![t].caller = "DumpNow"]
    /\ UNCHANGED <<regVars, lockVars, lifeVars, envVars, histVars, written>>

\* line 197
DumpNow_lock(t) ==
    /\ pc[t] = "dn_lock"
    /\ spin_lock(t)
    /\ pc' = [pc EXCEPT ![t] = "dn_snapshot"]
    /\ written' = [written EXCEPT ![t] = [NoDump EXCEPT !.status = "running",
                                                       !.after = written[t].cycle]]
    /\ committed' = IF \E u \in Threads : Snapshotting(u) THEN committed
                    ELSE [k \in 1..Len(committed) |-> {Triple(g_fixed_scope_pool[k])}]
    /\ th' = [th EXCEPT ![t].fs0 = fs_size]
    /\ UNCHANGED <<regVars, lifeVars, envVars, hist>>

\* lines 198-201: the pointers are copied, and the lock is released
DumpNow_unlock_late(t) == UNCHANGED lockVars

DumpNow_unlock(t) == spin_unlock(t)

DumpNow_snapshot(t) ==
    /\ pc[t] = "dn_snapshot"
    /\ th' = [th EXCEPT ![t].snapshot = SubSeq(g_scope_ptrs, 1, g_scope_ptrs_count),
                        ![t].i = 0, ![t].fld = 0]
    /\ DumpNow_unlock(t)
    /\ pc' = [pc EXCEPT ![t] = IF g_scope_ptrs_count = 0 THEN "dn_rank" ELSE "dn_copy"]
    /\ UNCHANGED <<regVars, lifeVars, envVars, histVars, written>>

\* lines 208-215, one entry in three reads: name and calls, total_ns, max_ns
DumpNow_copy(t) ==
    /\ pc[t] = "dn_copy"
    /\ LET i == th[t].i
           s == Slot(th[t].snapshot[i + 1])
           last == (i + 1 = Len(th[t].snapshot))
       IN CASE th[t].fld = 0 ->
                 /\ th' = [th EXCEPT ![t].copies = Append(@, [name |-> s.name, calls |-> s.calls,
                                                             total_ns |-> 0, max_ns |-> 0]),
                                     ![t].fld = 1]
                 /\ UNCHANGED pc
            [] th[t].fld = 1 ->
                 /\ th' = [th EXCEPT ![t].copies[i + 1].total_ns = s.total_ns, ![t].fld = 2]
                 /\ UNCHANGED pc
            [] OTHER ->
                 /\ th' = [th EXCEPT ![t].copies[i + 1].max_ns = s.max_ns, ![t].fld = 0,
                                     ![t].i = IF last THEN 0 ELSE i + 1]
                 /\ pc' = [pc EXCEPT ![t] = IF last THEN "dn_rank" ELSE "dn_copy"]
    /\ UNCHANGED <<regVars, lockVars, lifeVars, envVars, histVars, written>>

\* lines 217-230
DumpNow_rank(t) ==
    /\ pc[t] = "dn_rank"
    /\ th' = [th EXCEPT ![t].total_ns_all = SumTotal(th[t].copies, 1),
                        ![t].idx = SortedIdx(th[t].copies)]
    /\ written' = [written EXCEPT ![t].n = Len(th[t].copies)]
    /\ pc' = [pc EXCEPT ![t] = "dn_mkdir"]
    /\ UNCHANGED <<regVars, lockVars, lifeVars, envVars, histVars>>

\* line 232, ensure_log_dir (lines 147-166): mkdir of each prefix of LOG_DIR,
\* results ignored; a storage that does not answer leaves the directory as it was
DumpNow_mkdir(t) ==
    /\ pc[t] = "dn_mkdir"
    /\ fs_dir' = (fs_dir \/ fs_ok)
    /\ pc' = [pc EXCEPT ![t] = "dn_stat"]
    /\ UNCHANGED <<regVars, lockVars, lifeVars, wall, fs_ok, fs_size, th, histVars, written>>

\* line 172: the base file is large enough to be rotated
RotateDueAlways(size) == size >= 0

RotateDueAtThreshold(size) == size >= ROTATE_BYTES

RotateDue(size) == size > ROTATE_BYTES

\* lines 171-172
DumpNow_stat(t) ==
    /\ pc[t] = "dn_stat"
    /\ IF fs_ok /\ fs_size[0] # NoFile /\ RotateDue(fs_size[0])
       THEN /\ pc' = [pc EXCEPT ![t] = "dn_remove"]
            /\ written' = [written EXCEPT ![t].cycle = TRUE]
       ELSE /\ pc' = [pc EXCEPT ![t] = "dn_fopen"]
            /\ UNCHANGED written
    /\ UNCHANGED <<regVars, lockVars, lifeVars, envVars, th, histVars>>

\* an open stream follows its file: to the next generation on a rename, and
\* to no name at all (Unlinked) when the file is removed or replaced
Unlinked == MAX_ROTATE + 1

\* lines 177-178
DumpNow_remove(t) ==
    /\ pc[t] = "dn_remove"
    /\ IF fs_ok /\ fs_size[MAX_ROTATE] # NoFile
       THEN /\ fs_size' = [fs_size EXCEPT ![MAX_ROTATE] = NoFile]
            /\ th' = [u \in Threads |->
                        [th[u] EXCEPT !.f = IF @ = MAX_ROTATE THEN Unlinked ELSE @,
                                      !.ri = IF u = t THEN MAX_ROTATE - 1 ELSE @]]
       ELSE /\ UNCHANGED fs_size
            /\ th' = [th EXCEPT ![t].ri = MAX_ROTATE - 1]
    /\ pc' = [pc EXCEPT ![t] = "dn_rename"]
    /\ UNCHANGED <<regVars, lockVars, lifeVars, wall, fs_ok, fs_dir, histVars, written>>

\* lines 180-188, one rename(generation ri -> ri + 1) per step
DumpNow_rename(t) ==
    /\ pc[t] = "dn_rename"
    /\ LET i == th[t].ri
       IN /\ IF fs_ok /\ fs_size[i] # NoFile
             THEN /\ fs_size' = [fs_size EXCEPT ![i + 1] = fs_size[i], ![i] = NoFile]
                  /\ th' = [u \in Threads |->
                              [th[u] EXCEPT !.f = IF @ = i THEN i + 1
                                                  ELSE IF @ = i + 1 THEN Unlinked ELSE @,
                                            !.ri = IF u = t THEN i - 1 ELSE @]]
             ELSE /\ UNCHANGED fs_size
                  /\ th' = [th EXCEPT ![t].ri = i - 1]
          /\ pc' = [pc EXCEPT ![t] = IF i = 0 THEN "dn_fopen" ELSE "dn_rename"]
    /\ UNCHANGED <<regVars, lockVars, lifeVars, wall, fs_ok, fs_dir, histVars, written>>

\* lines 235-236: fopen(LOG_FILE, "a") creates the file when it is missing;
\* when it fails DumpNow returns
DumpNow_fopen_or_abort(t) ==
    /\ pc[t] = "dn_fopen"
    /\ fs_ok /\ fs_dir
    /\ fs_size' = [fs_size EXCEPT ![0] = IF @ = NoFile THEN 0 ELSE @]
    /\ th' = [th EXCEPT ![t].f = 0]
    /\ pc' = [pc EXCEPT ![t] = "dn_time"]
    /\ written' = [written EXCEPT ![t].status = "open"]
    /\ UNCHANGED <<regVars, lockVars, lifeVars, wall, fs_ok, fs_dir, histVars>>

DumpNow_fopen(t) ==
    /\ pc[t] = "dn_fopen"
    /\ IF fs_ok /\ fs_dir
       THEN /\ fs_size' = [fs_size EXCEPT ![0] = IF @ = NoFile THEN 0 ELSE @]
            /\ th' = [th EXCEPT ![t].f = 0]
            /\ pc' = [pc EXCEPT ![t] = "dn_time"]
            /\ written' = [written EXCEPT ![t].status = "open"]
       ELSE /\ th' = [th EXCEPT ![t] = DumpLocals0(t)]
            /\ pc' = [pc EXCEPT ![t] = ReturnPc(t)]
            /\ written' = [written EXCEPT ![t].status = "skipped"]
            /\ UNCHANGED fs_size
    /\ UNCHANGED <<regVars, lockVars, lifeVars, wall, fs_ok, fs_dir, histVars>>

\* lines 238-249: the timestamp and the number of records
DumpNow_time(t) ==
    /\ pc[t] = "dn_time"
    /\ LET limit == DumpLimit(Len(th[t].copies))
       IN /\ th' = [th EXCEPT ![t].tnow = wall, ![t].limit = limit, ![t].i = 0]
          /\ pc' = [pc EXCEPT ![t] = IF limit = 0 THEN "dn_fclose" ELSE "dn_fprintf"]
    /\ UNCHANGED <<regVars, lockVars, lifeVars, envVars, histVars, written>>

\* lines 251-271, one record per step
DumpNow_fprintf(t) ==
    /\ pc[t] = "dn_fprintf"
    /\ LET i == th[t].i
           r == Record(th[t].copies[th[t].idx[i + 1]], th[t].total_ns_all, th[t].tnow)
           g == th[t].f
       IN \E l \in Lines(r) :
            /\ written' = [written EXCEPT ![t].count = @ + 1]
            /\ fs_size' = IF g \in 0..MAX_ROTATE
                          THEN [fs_size EXCEPT ![g] = @ + LineBytes(l)] ELSE fs_size
            /\ th' = [th EXCEPT ![t].i = i + 1, ![t].recs = Append(@, l)]
            /\ pc' = [pc EXCEPT ![t] = IF i + 1 = th[t].limit THEN "dn_fclose" ELSE "dn_fprintf"]
    /\ UNCHANGED <<regVars, lockVars, lifeVars, wall, fs_ok, fs_dir, histVars>>

\* lines 273-275
DumpNow_fclose_resetting(t) ==
    /\ pc[t] = "dn_fclose"
    /\ g_last_dump' = th[t].tnow
    /\ g_fixed_scope_pool' = [k \in 1..Len(g_fixed_scope_pool) |->
                                 [g_fixed_scope_pool[k] EXCEPT !.calls = 0, !.total_ns = 0,
                                                               !.max_ns = 0]]
    /\ th' = [th EXCEPT ![t] = DumpLocals0(t)]
    /\ pc' = [pc EXCEPT ![t] = ReturnPc(t)]
    /\ written' = [written EXCEPT ![t].status = "done"]
    /\ UNCHANGED <<g_fixed_scope_used, g_fixed_scope_count, g_scope_ptrs, g_scope_ptrs_count,
                   lockVars, g_running, enabled, video, envVars, histVars>>

DumpNow_fclose(t) ==
    /\ pc[t] = "dn_fclose"
    /\ g_last_dump' = th[t].tnow
    /\ th' = [th EXCEPT ![t] = DumpLocals0(t)]
    /\ pc' = [pc EXCEPT ![t] = ReturnPc(t)]
    /\ written' = [written EXCEPT ![t].status = "done"]
    /\ UNCHANGED <<regVars, lockVars, g_running, enabled, video, envVars, histVars>>

\* --------------------------------------------------------------- lifecycle
\* lines 278-282
InitProfilerAlways(t) ==
    /\ pc[t] = "idle" /\ th[t].ops > 0
    /\ th' = [th EXCEPT ![t].ops = @ - 1, ![t].op = "InitProfiler"]
    /\ g_running' = TRUE /\ g_last_dump' = wall
    /\ UNCHANGED <<regVars, lockVars, enabled, video, envVars, pc, histVars, written>>

InitProfilerClearing(t) ==
    /\ pc[t] = "idle" /\ th[t].ops > 0
    /\ th' = [th EXCEPT ![t].ops = @ - 1, ![t].op = "InitProfiler"]
    /\ IF g_running
       THEN UNCHANGED <<g_running, g_last_dump, regVars>>
       ELSE /\ g_running' = TRUE /\ g_last_dump' = wall
            /\ g_fixed_scope_used' = {} /\ g_fixed_scope_count' = 0 /\ g_scope_ptrs_count' = 0
            /\ UNCHANGED <<g_fixed_scope_pool, g_scope_ptrs>>
    /\ UNCHANGED <<lockVars, enabled, video, envVars, pc, histVars, written>>

InitProfiler(t) ==
    /\ pc[t] = "idle" /\ th[t].ops > 0
    /\ th' = [th EXCEPT ![t].ops = @ - 1, ![t].op = "InitProfiler"]
    /\ IF g_running
       THEN UNCHANGED <<g_running, g_last_dump>>
       ELSE g_running' = TRUE /\ g_last_dump' = wall
    /\ UNCHANGED <<regVars, lockVars, enabled, video, envVars, pc, histVars, written>>

\* lines 289-301: the names of the common scopes, in the order of the calls
\* ("CPU_Frame", "GPU_Draw", ..., "Menu_FileBrowser")
PrecreatedNames == <<1, 2, 3, 4, 5, 6, 7, 8, 9, 10, 11, 12, 13>>

\* line 286
PrecreateScopes_call_reinit(t) ==
    /\ pc[t] = "idle" /\ th[t].ops > 0
    /\ th' = [th EXCEPT ![t].ops = @ - 1, ![t].op = "PrecreateScopes", ![t].pre = 1]
    /\ g_running' = TRUE /\ g_last_dump' = wall
    /\ pc' = [pc EXCEPT ![t] = "ps_next"]
    /\ UNCHANGED <<regVars, lockVars, enabled, video, envVars, histVars, written>>

PrecreateScopes_call(t) ==
    /\ pc[t] = "idle" /\ th[t].ops > 0
    /\ th' = [th EXCEPT ![t].ops = @ - 1, ![t].op = "PrecreateScopes", ![t].pre = 1]
    /\ IF g_running
       THEN UNCHANGED <<g_running, g_last_dump>>
       ELSE g_running' = TRUE /\ g_last_dump' = wall
    /\ pc' = [pc EXCEPT ![t] = "ps_next"]
    /\ UNCHANGED <<regVars, lockVars, enabled, video, envVars, histVars, written>>

\* lines 289-302: the next GetScopeByName call, or the return
PrecreateScopes_next(t) ==
    /\ pc[t] = "ps_next"
    /\ IF th[t].pre > Len(PrecreatedNames)
       THEN /\ th' = [th EXCEPT ![t].pre = 0]
            /\ pc' = [pc EXCEPT ![t] = "idle"]
       ELSE /\ th' = [th EXCEPT ![t].name = PrecreatedNames[th[t].pre], ![t].pre = @ + 1]
            /\ pc' = [pc EXCEPT ![t] = "gs_lock"]
    /\ UNCHANGED <<regVars, lockVars, lifeVars, envVars, histVars, written>>

\* the registered entries, in creation order
Entries == [i \in 1..g_scope_ptrs_count |-> Slot(g_scope_ptrs[i])]

\* lines 306-307
ShutdownProfiler_call(t) ==
    /\ pc[t] = "idle" /\ th[t].ops > 0
    /\ IF g_running
       THEN /\ th' = [th EXCEPT ![t].ops = @ - 1, ![t].op = "ShutdownProfiler",
                                ![t].caller = "ShutdownProfiler", ![t].pool0 = Entries]
            /\ pc' = [pc EXCEPT ![t] = "dn_lock"]
       ELSE /\ th' = [th EXCEPT ![t].ops = @ - 1, ![t].op = "ShutdownProfiler"]
            /\ UNCHANGED pc
    /\ UNCHANGED <<regVars, lockVars, lifeVars, envVars, histVars, written>>

\* line 309
ShutdownProfiler_lock(t) ==
    /\ pc[t] = "sd_lock"
    /\ spin_lock(t)
    /\ pc' = [pc EXCEPT ![t] = "sd_reset"]
    /\ UNCHANGED <<regVars, lifeVars, envVars, th, histVars, written>>

\* lines 311-316
ShutdownProfiler_reset_keeping_ptrs(t) ==
    /\ pc[t] = "sd_reset"
    /\ g_fixed_scope_used' = g_fixed_scope_used \ (0..(g_fixed_scope_count - 1))
    /\ g_fixed_scope_count' = 0
    /\ spin_unlock(t)
    /\ pc' = [pc EXCEPT ![t] = "sd_done"]
    /\ UNCHANGED <<g_fixed_scope_pool, g_scope_ptrs, g_scope_ptrs_count, lifeVars, envVars, th,
                   histVars, written>>

ShutdownProfiler_reset(t) ==
    /\ pc[t] = "sd_reset"
    /\ g_fixed_scope_used' = g_fixed_scope_used \ (0..(g_fixed_scope_count - 1))
    /\ g_fixed_scope_count' = 0
    /\ g_scope_ptrs_count' = 0
    /\ spin_unlock(t)
    /\ pc' = [pc EXCEPT ![t] = "sd_done"]
    /\ UNCHANGED <<g_fixed_scope_pool, g_scope_ptrs, lifeVars, envVars, th, histVars, written>>

\* line 318
ShutdownProfiler_done(t) ==
    /\ pc[t] = "sd_done"
    /\ g_running' = FALSE
    /\ pc' = [pc EXCEPT ![t] = IF th[t].op = "SetEnabled" THEN "se_off" ELSE "idle"]
    /\ th' = [th EXCEPT ![t].pool0 = <<>>]
    /\ UNCHANGED <<regVars, lockVars, g_last_dump, enabled, video, envVars, histVars, written>>

\* lines 321-327
TickIfNeededStrict(t) ==
    /\ pc[t] = "idle" /\ th[t].ops > 0
    /\ IF g_running /\ (wall - g_last_dump) > DUMP_INTERVAL_SEC
       THEN /\ th' = [th EXCEPT ![t].ops = @ - 1, ![t].op = "TickIfNeeded",
                                ![t].caller = "TickIfNeeded"]
            /\ pc' = [pc EXCEPT ![t] = "dn_lock"]
       ELSE /\ th' = [th EXCEPT ![t].ops = @ - 1, ![t].op = "TickIfNeeded"]
            /\ UNCHANGED pc
    /\ UNCHANGED <<regVars, lockVars, lifeVars, envVars, histVars, written>>

TickIfNeeded(t) ==
    /\ pc[t] = "idle" /\ th[t].ops > 0
    /\ IF g_running /\ (wall - g_last_dump) >= DUMP_INTERVAL_SEC
       THEN /\ th' = [th EXCEPT ![t].ops = @ - 1, ![t].op = "TickIfNeeded",
                                ![t].caller = "TickIfNeeded"]
            /\ pc' = [pc EXCEPT ![t] = "dn_lock"]
       ELSE /\ th' = [th EXCEPT ![t].ops = @ - 1, ![t].op = "TickIfNeeded"]
            /\ UNCHANGED pc
    /\ UNCHANGED <<regVars, lockVars, lifeVars, envVars, histVars, written>>

\* ------------------------------------------------------------ legacy shim
\* LegacyProfiler::SetEnabled, lines 331-339.  With e and a clear flag it
\* calls InitProfiler (lines 278-282) and sets the flag; with ~e and a set
\* flag it calls ShutdownProfiler (lines 305-319) and clears the flag once
\* that has returned; otherwise it does nothing.
SetEnabled_call(t, e) ==
    /\ pc[t] = "idle" /\ th[t].ops > 0
    /\ IF e /\ ~enabled
       THEN /\ IF g_running
               THEN UNCHANGED <<g_running, g_last_dump>>
               ELSE g_running' = TRUE /\ g_last_dump' = wall
            /\ enabled' = TRUE
            /\ th' = [th EXCEPT ![t].ops = @ - 1, ![t].op = "SetEnabled", ![t].e = e]
            /\ UNCHANGED pc
       ELSE IF ~e /\ enabled
       THEN IF g_running
            THEN /\ th' = [th EXCEPT ![t].ops = @ - 1, ![t].op = "SetEnabled", ![t].e = e,
                                     ![t].caller = "ShutdownProfiler", ![t].pool0 = Entries]
                 /\ pc' = [pc EXCEPT ![t] = "dn_lock"]
                 /\ UNCHANGED <<g_running, g_last_dump, enabled>>
            ELSE /\ th' = [th EXCEPT ![t].ops = @ - 1, ![t].op = "SetEnabled", ![t].e = e]
                 /\ enabled' = FALSE
                 /\ UNCHANGED <<g_running, g_last_dump, pc>>
       ELSE /\ th' = [th EXCEPT ![t].ops = @ - 1, ![t].op = "SetEnabled", ![t].e = e]
            /\ UNCHANGED <<g_running, g_last_dump, enabled, pc>>
    /\ UNCHANGED <<regVars, lockVars, video, envVars, histVars, written>>

\* line 338, after ShutdownProfiler has returned
SetEnabled_off(t) ==
    /\ pc[t] = "se_off"
    /\ enabled' = FALSE
    /\ pc' = [pc EXCEPT ![t] = "idle"]
    /\ UNCHANGED <<regVars, lockVars, g_running, g_last_dump, video, envVars, th, histVars,
                   written>>

\* line 341
IsEnabled == enabled

\* ------------------------------------------------------------------ video
\* the thread LWP_CreateThread starts (main.cpp:663)
DrawThread == 2

\* what the handle held in vidmutex refers to
MutexRef(v) == IF ~v.vidmutex THEN "null" ELSE IF v.alive THEN "live" ELSE "destroyed"

\* LWP_MutexLock(vidmutex) returns to thread t: with the mutex, or with an
\* error when the handle is LWP_MUTEX_NULL or the object is gone.  On a mutex
\* another thread holds the call does not return (no step).
CanLock(v, t) == MutexRef(v) = "live" => v.owner = NoThread
Locked(v, t) == IF MutexRef(v) = "live" THEN [v EXCEPT !.owner = t] ELSE v

\* LWP_MutexUnlock(vidmutex) by thread t: an error unless t holds the mutex
Unlocked(v, t) == IF MutexRef(v) = "live" /\ v.owner = t THEN [v EXCEPT !.owner = NoThread] ELSE v

\* LWP_MutexDestroy(vidmutex): a locked mutex is left as it is (EBUSY)
Destroyed(v) == IF MutexRef(v) = "live" /\ v.owner = NoThread THEN [v EXCEPT !.alive = FALSE] ELSE v

videoRest == <<regVars, lockVars, g_running, g_last_dump, enabled, envVars, histVars, written>>

\* main.cpp:179-258: main up to the call of Execute.  init creates the
\* mutex (lines 380-381); a failed FileBrowser sets quit_game (lines 222-223).
init_video(t) ==
    /\ t = MainThread /\ pc[t] = "idle" /\ th[t].ops > 0
    /\ ~video.vidmutex /\ ~video.vidthread
    /\ \E q \in BOOLEAN :
          video' = [video EXCEPT !.vidmutex = TRUE, !.alive = TRUE, !.quit_game = q]
    /\ pc' = [pc EXCEPT ![t] = "ex_create"]
    /\ UNCHANGED <<videoRest, th>>

\* lines 662-663
Execute_create(t) ==
    /\ pc[t] = "ex_create"
    /\ IF ~video.vidthread
       THEN /\ video' = [video EXCEPT !.vidthread = TRUE]
            /\ pc' = [pc EXCEPT ![t] = "ex_loop", ![DrawThread] = "dt_check"]
       ELSE /\ UNCHANGED video
            /\ pc' = [pc EXCEPT ![t] = "ex_loop"]
    /\ UNCHANGED <<videoRest, th>>

\* line 665
Execute_loop(t) ==
    /\ pc[t] = "ex_loop"
    /\ pc' = [pc EXCEPT ![t] = IF video.quit_game THEN "ex_abort" ELSE "ds_exec"]
    /\ UNCHANGED <<videoRest, video, th>>

\* lines 669, 725-783: one frame.  The HOME button sets quit_game (line 774),
\* at the latest in the last frame of the budget; Draw is called when
\* SkipFrameTracker is 0 (line 782).
DSExec(t) ==
    /\ pc[t] = "ds_exec" /\ th[t].ops > 0
    /\ th' = [th EXCEPT ![t].ops = @ - 1, ![t].op = "DSExec"]
    /\ \E q \in (IF th[t].ops = 1 THEN {TRUE} ELSE BOOLEAN) :
          video' = [video EXCEPT !.quit_game = q]
    /\ \E SkipFrameTracker \in 0..1 :
          pc' = [pc EXCEPT ![t] = IF SkipFrameTracker = 0 THEN "dr_lock" ELSE "ex_loop"]
    /\ UNCHANGED videoRest

\* line 455
Draw_lock(t) ==
    /\ pc[t] = "dr_lock"
    /\ CanLock(video, t)
    /\ video' = Locked(video, t)
    /\ pc' = [pc EXCEPT ![t] = "dr_convert"]
    /\ UNCHANGED <<videoRest, th>>

\* lines 457-479: the texture conversion
Draw_convert(t) ==
    /\ pc[t] = "dr_convert"
    /\ pc' = [pc EXCEPT ![t] = "dr_unlock"]
    /\ UNCHANGED <<videoRest, video, th>>

\* line 481
Draw_unlock(t) ==
    /\ pc[t] = "dr_unlock"
    /\ video' = Unlocked(video, t)
    /\ pc' = [pc EXCEPT ![t] = "ex_loop"]
    /\ UNCHANGED <<videoRest, th>>

\* line 677
Execute_abort(t) ==
    /\ pc[t] = "ex_abort"
    /\ video' = [video EXCEPT !.abort_thread = TRUE]
    /\ pc' = [pc EXCEPT ![t] = "ex_destroy"]
    /\ UNCHANGED <<videoRest, th>>

\* line 678
Execute_destroy(t) ==
    /\ pc[t] = "ex_destroy"
    /\ video' = Destroyed(video)
    /\ pc' = [pc EXCEPT ![t] = "ex_null"]
    /\ UNCHANGED <<videoRest, th>>

\* line 679
Execute_null(t) ==
    /\ pc[t] = "ex_null"
    /\ video' = [video EXCEPT !.vidmutex = FALSE]
    /\ pc' = [pc EXCEPT ![t] = "ex_join"]
    /\ UNCHANGED <<videoRest, th>>

\* lines 680-681: LWP_JoinThread returns once draw_thread has returned
Execute_join(t) ==
    /\ pc[t] = "ex_join"
    /\ pc[DrawThread] = "dt_exit"
    /\ video' = [video EXCEPT !.vidthread = FALSE]
    /\ pc' = [pc EXCEPT ![t] = "ex_done"]
    /\ UNCHANGED <<videoRest, th>>

\* lines 573-574
draw_thread_check(d) ==
    /\ pc[d] = "dt_check"
    /\ pc' = [pc EXCEPT ![d] = IF video.abort_thread THEN "dt_exit" ELSE "dt_lock"]
    /\ UNCHANGED <<videoRest, video, th>>

\* line 579
draw_thread_lock(d) ==
    /\ pc[d] = "dt_lock"
    /\ CanLock(video, d)
    /\ video' = [Locked(video, d) EXCEPT !.used = MutexRef(video)]
    /\ pc' = [pc EXCEPT ![d] = "dt_render"]
    /\ UNCHANGED <<videoRest, th>>

\* lines 581-651: the rendering section
draw_thread_render(d) ==
    /\ pc[d] = "dt_render"
    /\ pc' = [pc EXCEPT ![d] = "dt_unlock"]
    /\ UNCHANGED <<videoRest, video, th>>

\* line 653
draw_thread_unlock(d) ==
    /\ pc[d] = "dt_unlock"
    /\ video' = [Unlocked(video, d) EXCEPT !.used = MutexRef(video)]
    /\ pc' = [pc EXCEPT ![d] = "dt_vsync"]
    /\ UNCHANGED <<videoRest, th>>

\* line 655
draw_thread_vsync(d) ==
    /\ pc[d] = "dt_vsync"
    /\ pc' = [pc EXCEPT ![d] = "dt_check"]
    /\ UNCHANGED <<videoRest, video, th>>

Execute(t) ==
    \/ Execute_create(t)
    \/ Execute_loop(t)
    \/ DSExec(t)
    \/ Draw_lock(t)
    \/ Draw_convert(t)
    \/ Draw_unlock(t)
    \/ Execute_abort(t)
    \/ Execute_destroy(t)
    \/ Execute_null(t)
    \/ Execute_join(t)

draw_thread(d) ==
    \/ draw_thread_check(d)
    \/ draw_thread_lock(d)
    \/ draw_thread_render(d)
    \/ draw_thread_unlock(d)
    \/ draw_thread_vsync(d)

\* time(NULL) moves on
AdvanceWall(d) ==
    /\ wall + d <= MaxWall
    /\ wall' = wall + d
    /\ UNCHANGED <<regVars, lockVars, lifeVars, fs_ok, fs_dir, fs_size, pc, th, histVars, written>>

\* the storage stops or starts answering (card pulled, card put back)
StorageFlip ==
    /\ fs_ok' = ~fs_ok
    /\ UNCHANGED <<regVars, lockVars, lifeVars, wall, fs_dir, fs_size, pc, th, histVars, written>>

\* ------------------------------------------------------------------- specs
InitCommon ==
    /\ g_fixed_scope_pool = <<>>
    /\ g_fixed_scope_used = {}
    /\ g_fixed_scope_count = 0
    /\ g_scope_ptrs = <<>>
    /\ g_scope_ptrs_count = 0
    /\ g_spinlock = 0
    /\ g_running = FALSE
    /\ g_last_dump = 0
    /\ enabled = FALSE
    /\ video = Video0
    /\ wall = 0
    /\ fs_ok = TRUE
    /\ fs_dir = FALSE
    /\ fs_size = [g \in 0..MAX_ROTATE |-> NoFile]
    /\ pc = [t \in Threads |-> "idle"]
    /\ th = [t \in Threads |-> Th0]
    /\ holder = NoThread
    /\ hist = <<>>
    /\ committed = <<>>
    /\ written = [t \in Threads |-> NoDump]

Init == InitCommon

Registry(t) ==
    \/ \E n \in Names : GetScopeByName_call(t, n)
    \/ GetScopeByName_lock(t)
    \/ GetScopeByName_search(t)
    \/ GetScopeByName_alloc(t)

Timer(t) ==
    \/ ScopedTimer_ctor(t)
    \/ ScopedTimer_dtor(t)
    \/ ScopedTimer_lock(t)
    \/ ScopedTimer_calls_ld(t)
    \/ ScopedTimer_calls_st(t)
    \/ ScopedTimer_total_ld(t)
    \/ ScopedTimer_total_st(t)
    \/ ScopedTimer_max(t)

Dump(t) ==
    \/ DumpNow_lock(t)
    \/ DumpNow_snapshot(t)
    \/ DumpNow_copy(t)
    \/ DumpNow_rank(t)
    \/ DumpNow_mkdir(t)
    \/ DumpNow_stat(t)
    \/ DumpNow_remove(t)
    \/ DumpNow_rename(t)
    \/ DumpNow_fopen(t)
    \/ DumpNow_time(t)
    \/ DumpNow_fprintf(t)
    \/ DumpNow_fclose(t)

Precreate(t) ==
    \/ PrecreateScopes_call(t)
    \/ PrecreateScopes_next(t)
    \/ GetScopeByName_lock(t)
    \/ GetScopeByName_search(t)
    \/ GetScopeByName_alloc(t)

Shutdown(t) ==
    \/ ShutdownProfiler_call(t)
    \/ ShutdownProfiler_lock(t)
    \/ ShutdownProfiler_reset(t)
    \/ ShutdownProfiler_done(t)

\* the registry and the timers, from program start
Next == \E t \in Threads : Registry(t) \/ Timer(t)

Spec == Init /\ [][Next]_vars

\* A registry in which `entries` were created in that order.  Each entry is
\* either fresh or has had one sample folded in by thread 1.
Registered(entries) ==
    LET n == Len(entries)
    IN /\ g_fixed_scope_pool = entries
       /\ g_fixed_scope_used = 0..(n - 1)
       /\ g_fixed_scope_count = n
       /\ g_scope_ptrs = [k \in 1..n |-> k - 1]
       /\ g_scope_ptrs_count = n
       /\ hist = [k \in 1..n |->
                    [u \in Threads |-> IF u = 1 /\ entries[k].calls = 1
                                       THEN SetToBag({entries[k].total_ns}) ELSE EmptyBag]]
       /\ committed = [k \in 1..n |-> {Triple(entries[k])}]

\* a fresh entry, as GetScopeByName leaves it (lines 115-118)
Fresh(n) == [name |-> n, calls |-> 0, total_ns |-> 0, max_ns |-> 0]

\* an entry after one fold of e into a fresh one
FoldedOnce(n, e) == [name |-> n, calls |-> 1, total_ns |-> e, max_ns |-> e]

InitIdle ==
    /\ g_spinlock = 0
    /\ g_last_dump = 0
    /\ enabled = FALSE
    /\ video = Video0
    /\ pc = [t \in Threads |-> "idle"]
    /\ holder = NoThread
    /\ written = [t \in Threads |-> NoDump]

\* Timers only: the scopes 1..n have just been created and every thread holds
\* the handle of one of them, or a null handle.
InitFold ==
    /\ InitIdle
    /\ \E n \in 1..MaxNames : Registered([k \in 1..n |-> Fresh(k)])
    /\ th \in [Threads -> {[Th0 EXCEPT !.found = h, !.found_name = h + 1] :
                            h \in {NULLPTR} \cup (0..(MaxNames - 1))}]
    /\ \A t \in Threads : th[t].found < g_fixed_scope_count
    /\ g_running = FALSE
    /\ wall = 0
    /\ fs_ok = TRUE
    /\ fs_dir = FALSE
    /\ fs_size = [g \in 0..MAX_ROTATE |-> NoFile]

NextFold == \E t \in Threads : Timer(t)

FoldSpec == InitFold /\ [][NextFold]_vars

\* The registry at and just below its capacity: the scopes 1..n were created
\* in that order, every second one has had a sample folded in.
CapNames == {1, FIXED_SCOPE_POOL_SIZE, FIXED_SCOPE_POOL_SIZE + 1, FIXED_SCOPE_POOL_SIZE + 2}

InitCap ==
    /\ InitIdle
    /\ \E n \in {FIXED_SCOPE_POOL_SIZE - 1, FIXED_SCOPE_POOL_SIZE} :
          Registered([k \in 1..n |-> IF k % 2 = 0 THEN Fresh(k)
                                     ELSE FoldedOnce(k, k % (MaxNs + 1))])
    /\ th = [t \in Threads |-> Th0]
    /\ g_running = FALSE
    /\ wall = 0
    /\ fs_ok = TRUE
    /\ fs_dir = FALSE
    /\ fs_size = [g \in 0..MAX_ROTATE |-> NoFile]

NextCap ==
    \E t \in Threads :
        \/ \E n \in CapNames : GetScopeByName_call(t, n)
        \/ GetScopeByName_lock(t)
        \/ GetScopeByName_search(t)
        \/ GetScopeByName_alloc(t)

CapSpec == InitCap /\ [][NextCap]_vars

\* The storage as a dump can find it (does it answer, is the directory there,
\* the generations base, .1, .2, .3): nothing there yet, a base file at the
\* threshold on a card that does not answer, and a base file over the
\* threshold behind which every generation exists.
FsStates ==
    {<<TRUE, FALSE, [g \in 0..MAX_ROTATE |-> NoFile]>>,
     <<FALSE, TRUE, [g \in 0..MAX_ROTATE |-> IF g = 0 THEN ROTATE_BYTES ELSE NoFile]>>,
     <<TRUE, TRUE, [g \in 0..MAX_ROTATE |-> ROTATE_BYTES + 1]>>}

\* A running profiler: the scopes exist, the threads hold handles, samples
\* are taken by the other threads while the main thread makes dumps directly,
\* by TickIfNeeded and by ShutdownProfiler.
InitDump ==
    /\ InitIdle
    /\ Registered([k \in 1..MaxNames |-> Fresh(k)])
    /\ th = [t \in Threads |->
                [Th0 EXCEPT !.found = 0, !.found_name = 1,
                            !.ops = IF t = MainThread THEN MaxOps ELSE MaxOps - 1]]
    /\ g_running = TRUE
    /\ wall = DUMP_INTERVAL_SEC
    /\ \E fs \in FsStates : fs_ok = fs[1] /\ fs_dir = fs[2] /\ fs_size = fs[3]

NextDump ==
    \/ \E t \in Threads \ {MainThread} : Timer(t)
    \/ DumpNow_call(MainThread)
    \/ TickIfNeeded(MainThread)
    \/ Dump(MainThread)
    \/ Shutdown(MainThread)

DumpSpec == InitDump /\ [][NextDump]_vars

\* an entry in which one sample of `total` ns has been folded, if any
Timed(n, total) == IF total = 0 THEN Fresh(n) ELSE FoldedOnce(n, total)

\* the scopes 1..len created in every order, with every choice of totals
CreationOrders(len) == {f \in [1..len -> 1..len] : \A i, j \in 1..len : f[i] = f[j] => i = j}

SmallRegistries ==
    UNION {{[k \in 1..len |-> Timed(nm[k], tt[k])] :
                nm \in CreationOrders(len), tt \in [1..len -> ClockNs]} : len \in 0..MaxSnap}

\* registries around the number of records a dump writes: the scopes 1..len
\* in that order, with totals that are all equal (p = 0), that rise with the
\* creation order (p = 1) or that are scattered (p > 1)
LongRegistries ==
    {[k \in 1..len |-> Timed(k, (k * p) % (MAX_DUMP_SCOPES + 1))] :
        len \in (MAX_DUMP_SCOPES - 1)..(MAX_DUMP_SCOPES - 1 + MaxSnap), p \in ClockNs}

\* four scopes whose totals are out of order
ExampleTotals == <<10, 50, 5, 100>>

ExampleRegistry == [k \in 1..Len(ExampleTotals) |-> Timed(k, ExampleTotals[k])]

\* lines 140-142: an entry after one more sample, and after a run of samples
FoldInto(s, e) ==
    [s EXCEPT !.calls = @ + 1, !.total_ns = FoldTotal(@, e), !.max_ns = FoldMax(@, e)]

RECURSIVE FoldAll(_, _)
FoldAll(s, samples) ==
    IF samples = <<>> THEN s ELSE FoldAll(FoldInto(s, Head(samples)), Tail(samples))

\* a scope with every run of up to MaxSnap samples, next to a second scope
SampledRegistries ==
    {<<FoldAll(Fresh(1), ss), Timed(2, e)>> :
        ss \in UNION {[1..len -> ClockNs] : len \in 0..MaxSnap}, e \in ClockNs}

\* the scopes of PrecreateScopes (lines 289-301), none of them sampled
PrecreatedRegistry == [k \in 1..Len(PrecreatedNames) |-> Fresh(PrecreatedNames[k])]

\* three samples of 10 ms in one scope
ExampleSamples == <<10 * 1000000, 10 * 1000000, 10 * 1000000>>

ExampleScope == <<FoldAll(Fresh(1), ExampleSamples)>>

\* One dump of a quiet registry by the main thread, on every storage state.
InitSort ==
    /\ InitIdle
    /\ \E r \in SmallRegistries \cup LongRegistries \cup SampledRegistries
                  \cup {ExampleRegistry, ExampleScope, PrecreatedRegistry} : Registered(r)
    /\ th = [t \in Threads |-> [Th0 EXCEPT !.ops = IF t = MainThread THEN 1 ELSE 0]]
    /\ g_running = TRUE
    /\ wall = DUMP_INTERVAL_SEC
    /\ \E fs \in FsStates : fs_ok = fs[1] /\ fs_dir = fs[2] /\ fs_size = fs[3]

NextSort == DumpNow_call(MainThread) \/ Dump(MainThread)

SortSpec == InitSort /\ [][NextSort]_vars

\* The log files as a dump can find them on a storage that answers: the base
\* missing, one byte short of the threshold, at it, or past it; each
\* generation missing or there, with a size of its own.
RotateFiles ==
    {[g \in 0..MAX_ROTATE |-> IF g = 0 THEN b ELSE IF g \in have THEN ROTATE_BYTES + 1 + g
                                                   ELSE NoFile] :
        b \in {NoFile, ROTATE_BYTES - 1, ROTATE_BYTES, ROTATE_BYTES + 1},
        have \in SUBSET (1..MAX_ROTATE)}

\* Dumps one after the other by the main thread, of a registry of up to
\* MaxNames sampled scopes, no other thread running.
InitRotate ==
    /\ InitIdle
    /\ \E n \in 0..MaxNames : Registered([k \in 1..n |-> Timed(k, k % (MaxNs + 1))])
    /\ th = [t \in Threads |-> [Th0 EXCEPT !.ops = IF t = MainThread THEN MaxOps ELSE 0]]
    /\ g_running = TRUE
    /\ wall = DUMP_INTERVAL_SEC
    /\ fs_ok = TRUE
    /\ fs_dir = TRUE
    /\ fs_size \in RotateFiles

NextRotate == DumpNow_call(MainThread) \/ Dump(MainThread)

RotateSpec == InitRotate /\ [][NextRotate]_vars

\* Dumps by the main thread, directly and by TickIfNeeded, on a storage that
\* can stop and start answering at any moment.
InitFail ==
    /\ InitIdle
    /\ \E n \in 1..MaxNames : Registered([k \in 1..n |-> Timed(k, k % (MaxNs + 1))])
    /\ th = [t \in Threads |-> [Th0 EXCEPT !.ops = IF t = MainThread THEN MaxOps ELSE 0]]
    /\ g_running = TRUE
    /\ wall = DUMP_INTERVAL_SEC
    /\ \E fs \in FsStates : fs_ok = fs[1] /\ fs_dir = fs[2] /\ fs_size = fs[3]

NextFail ==
    \/ DumpNow_call(MainThread)
    \/ TickIfNeeded(MainThread)
    \/ Dump(MainThread)
    \/ StorageFlip

FailSpec == InitFail /\ [][NextFail]_vars

\* The lifecycle calls of the main thread, in any order, between scope
\* creations and while time passes.  The profiler is either not running, with
\* the scopes created so far, or has been started one second ago.
InitLife ==
    /\ InitIdle
    /\ \E n \in 0..MaxNames : Registered([k \in 1..n |-> Timed(k, k % (MaxNs + 1))])
    /\ th = [t \in Threads |-> [Th0 EXCEPT !.ops = IF t = MainThread THEN MaxOps ELSE 0]]
    /\ g_running \in BOOLEAN
    /\ wall = 1
    /\ \E fs \in FsStates : fs_ok = fs[1] /\ fs_dir = fs[2] /\ fs_size = fs[3]

NextLife ==
    \/ Registry(MainThread)
    \/ InitProfiler(MainThread)
    \/ Shutdown(MainThread)
    \/ Dump(MainThread)
    \/ \E d \in {1, DUMP_INTERVAL_SEC - 1} : AdvanceWall(d)

LifeSpec == InitLife /\ [][NextLife]_vars

\* The main loop calling TickIfNeeded while the clock moves on second by
\* second, with direct dumps, a shutdown and a storage that stops and starts
\* answering.  The last dump was made at time 0 and the interval is about to
\* elapse.
InitTick ==
    /\ InitIdle
    /\ \E n \in 1..MaxNames : Registered([k \in 1..n |-> Timed(k, k % (MaxNs + 1))])
    /\ th = [t \in Threads |-> [Th0 EXCEPT !.ops = IF t = MainThread THEN MaxOps ELSE 0]]
    /\ g_running \in BOOLEAN
    /\ wall = DUMP_INTERVAL_SEC - 1
    /\ \E fs \in FsStates : fs_ok = fs[1] /\ fs_dir = fs[2] /\ fs_size = fs[3]

NextTick ==
    \/ TickIfNeeded(MainThread)
    \/ DumpNow_call(MainThread)
    \/ Dump(MainThread)
    \/ Shutdown(MainThread)
    \/ AdvanceWall(1)
    \/ StorageFlip

TickSpec == InitTick /\ [][NextTick]_vars

\* A shutdown by the main thread, around scope creations and InitProfiler
\* calls, while the other thread, which holds the handle of the first scope,
\* runs timers on it.  The scopes hold samples when the run begins.
InitShut ==
    /\ InitIdle
    /\ \E n \in 1..MaxNames : Registered([k \in 1..n |-> Timed(k, k % (MaxNs + 1))])
    /\ th = [t \in Threads |->
                IF t = MainThread THEN Th0
                ELSE [Th0 EXCEPT !.found = 0, !.found_name = 1, !.ops = 1]]
    /\ g_running \in BOOLEAN
    /\ wall = 1
    /\ \E fs \in FsStates : fs_ok = fs[1] /\ fs_dir = fs[2] /\ fs_size = fs[3]

NextShut ==
    \/ \E t \in Threads \ {MainThread} : Timer(t)
    \/ Registry(MainThread)
    \/ InitProfiler(MainThread)
    \/ Shutdown(MainThread)
    \/ Dump(MainThread)

ShutSpec == InitShut /\ [][NextShut]_vars

\* The storage with a base file over the threshold and every generation there
FullStorage ==
    /\ fs_ok = TRUE
    /\ fs_dir = TRUE
    /\ fs_size = [g \in 0..MAX_ROTATE |-> ROTATE_BYTES + 1]

\* Every call of the API by the main thread, in any order, with a dump due
\* for TickIfNeeded, while the other thread runs one timer on the first scope.
InitMono ==
    /\ InitIdle
    /\ Registered([k \in 1..MaxNames |-> Timed(k, k % (MaxNs + 1))])
    /\ th = [t \in Threads |->
                IF t = MainThread THEN Th0
                ELSE [Th0 EXCEPT !.found = 0, !.found_name = 1, !.ops = 1]]
    /\ g_running \in BOOLEAN
    /\ wall = DUMP_INTERVAL_SEC
    /\ FullStorage

NextMono ==
    \/ \E t \in Threads \ {MainThread} : Timer(t)
    \/ \E n \in Names : GetScopeByName_call(MainThread, n)
    \/ Precreate(MainThread)
    \/ InitProfiler(MainThread)
    \/ TickIfNeeded(MainThread)
    \/ DumpNow_call(MainThread)
    \/ Dump(MainThread)
    \/ Shutdown(MainThread)

MonoSpec == InitMono /\ [][NextMono]_vars

\* A thread that is inside a call takes its next step if that step stays
\* possible (the scheduler is fair); when a call is made is up to the caller.
InitFair ==
    /\ InitIdle
    /\ Registered([k \in 1..MaxNames |-> Fresh(k)])
    /\ th = [t \in Threads |->
                IF t = MainThread THEN Th0
                ELSE [Th0 EXCEPT !.found = 0, !.found_name = 1, !.ops = 1]]
    /\ g_running = TRUE
    /\ wall = DUMP_INTERVAL_SEC
    /\ FullStorage

NextFair ==
    \/ \E t \in Threads \ {MainThread} : Timer(t)
    \/ Registry(MainThread)
    \/ InitProfiler(MainThread)
    \/ TickIfNeeded(MainThread)
    \/ DumpNow_call(MainThread)
    \/ Dump(MainThread)
    \/ Shutdown(MainThread)

MainProgress ==
    /\ pc[MainThread] # "idle"
    /\ Registry(MainThread) \/ Dump(MainThread) \/ Shutdown(MainThread)

OtherProgress(t) == pc[t] # "idle" /\ Timer(t)

FairSpec ==
    /\ InitFair /\ [][NextFair]_vars
    /\ WF_vars(MainProgress)
    /\ \A t \in Threads \ {MainThread} : WF_vars(OtherProgress(t))

\* scopes of the emulator that are not among the common ones, filling the
\* pool up to its last slot
OtherScopes ==
    [k \in 1..(FIXED_SCOPE_POOL_SIZE - 1) |-> Fresh(Len(PrecreatedNames) + k)]

\* PrecreateScopes called again and again by the main thread while time
\* passes: on an empty registry, on one that holds some of the common scopes
\* with samples, and on one with a single slot left.
InitPre ==
    /\ InitIdle
    /\ \E r \in {<<>>, [k \in 1..MaxNames |-> FoldedOnce(k, 1 + (k % MaxNs))], OtherScopes} :
          Registered(r)
    /\ th = [t \in Threads |-> [Th0 EXCEPT !.ops = IF t = MainThread THEN MaxOps ELSE 0]]
    /\ g_running \in BOOLEAN
    /\ wall = 1
    /\ fs_ok = TRUE
    /\ fs_dir = FALSE
    /\ fs_size = [g \in 0..MAX_ROTATE |-> NoFile]

NextPre ==
    \/ Precreate(MainThread)
    \/ AdvanceWall(1)

PreSpec == InitPre /\ [][NextPre]_vars

\* Both threads call GetScopeByName, with the name that is registered and
\* with a new one, run timers, dump and shut down, sharing a budget of MaxOps
\* calls; each holds the handle of the scope that is registered.
InitExcl ==
    /\ InitIdle
    /\ Registered(<<Fresh(1)>>)
    /\ \E a \in 0..MaxOps :
          th = [t \in Threads |->
                  [Th0 EXCEPT !.found = 0, !.found_name = 1,
                              !.ops = IF t = MainThread THEN a ELSE MaxOps - a]]
    /\ g_running = TRUE
    /\ wall = DUMP_INTERVAL_SEC
    /\ FullStorage

NextExcl ==
    \E t \in Threads :
        \/ \E n \in {1, 2} : GetScopeByName_call(t, n)
        \/ GetScopeByName_lock(t)
        \/ GetScopeByName_search(t)
        \/ GetScopeByName_alloc(t)
        \/ Timer(t)
        \/ DumpNow_call(t)
        \/ Dump(t)
        \/ Shutdown(t)

ExclSpec == InitExcl /\ [][NextExcl]_vars

\* Both threads call TickIfNeeded, sharing a budget of MaxOps calls, at a
\* moment when the interval has elapsed since the last dump.
InitRace ==
    /\ InitIdle
    /\ Registered([k \in 1..MaxNames |-> Timed(k, k % (MaxNs + 1))])
    /\ \E a \in 0..MaxOps :
          th = [t \in Threads |->
                  [Th0 EXCEPT !.ops = IF t = MainThread THEN a ELSE MaxOps - a]]
    /\ g_running = TRUE
    /\ wall = DUMP_INTERVAL_SEC
    /\ \E fs \in FsStates : fs_ok = fs[1] /\ fs_dir = fs[2] /\ fs_size = fs[3]

NextRace == \E t \in Threads : TickIfNeeded(t) \/ Dump(t)

RaceSpec == InitRace /\ [][NextRace]_vars

\* The main thread, from program start, uses the legacy object and the
\* functions of the profiler side by side; scopes have been created and
\* sampled already.
ShimOps == MaxOps + 1

InitShim ==
    /\ InitIdle
    /\ Registered([k \in 1..MaxNames |-> Timed(k, k % (MaxNs + 1))])
    /\ th = [t \in Threads |-> [Th0 EXCEPT !.ops = IF t = MainThread THEN ShimOps ELSE 0]]
    /\ g_running = FALSE
    /\ wall = 0
    /\ \E fs \in FsStates : fs_ok = fs[1] /\ fs_dir = fs[2] /\ fs_size = fs[3]

NextShim ==
    \/ \E e \in BOOLEAN : SetEnabled_call(MainThread, e)
    \/ SetEnabled_off(MainThread)
    \/ InitProfiler(MainThread)
    \/ Precreate(MainThread)
    \/ Shutdown(MainThread)
    \/ Dump(MainThread)

ShimSpec == InitShim /\ [][NextShim]_vars

\* The emulator from program start: main creates the mutex and calls
\* Execute, which starts the draw thread, runs at most MaxOps frames and
\* tears the thread down.
InitVideo ==
    /\ InitIdle
    /\ Registered(<<>>)
    /\ th = [t \in Threads |-> Th0]
    /\ g_running = FALSE
    /\ wall = 0
    /\ fs_ok = TRUE /\ fs_dir = FALSE /\ fs_size = [g \in 0..MAX_ROTATE |-> NoFile]

NextVideo ==
    \/ init_video(MainThread)
    \/ Execute(MainThread)
    \/ draw_thread(DrawThread)

VideoSpec == InitVideo /\ [][NextVideo]_vars

\* Both threads are scheduled again and again, and a thread that waits in
\* LWP_MutexLock is on the mutex's queue, so that it gets the mutex when the
\* holder unlocks.
VideoFairSpec ==
    VideoSpec /\ SF_vars(init_video(MainThread) \/ Execute(MainThread))
              /\ SF_vars(draw_thread(DrawThread))

\* ------------------------------------------------------------------ claims
\* the slots ever written
Slots == 0..(Len(g_fixed_scope_pool) - 1)

\* thread t is inside the locked section of ~ScopedTimer on slot k
Folding(t, k) ==
    /\ pc[t] \in {"st_calls_ld", "st_calls_st", "st_total_ld", "st_total_st", "st_max"}
    /\ th[t].stats = k

RECURSIVE BagTotalOf(_, _)
BagTotalOf(B, S) ==
    IF S = {} THEN 0
    ELSE LET d == CHOOSE x \in S : TRUE
         IN d * CopiesIn(d, B) + BagTotalOf(B, S \ {d})

\* the sum, the maximum and the number of the durations in a bag
BagTotal(B) == BagTotalOf(B, BagToSet(B))
BagMax(B) == IF BagToSet(B) = {} THEN 0
             ELSE CHOOSE x \in BagToSet(B) : \A y \in BagToSet(B) : y <= x

RECURSIVE FoldsUpTo(_, _)
FoldsUpTo(k, t) == IF t = 0 THEN EmptyBag ELSE hist[k + 1][t] (+) FoldsUpTo(k, t - 1)

\* every duration folded into slot k, by any thread, since the slot was initialised
Folds(k) == FoldsUpTo(k, NumThreads)

\* C1: after N completed ScopedTimers on one entry, counted from its creation,
\* calls is N, total_ns is the exact sum of the elapsed durations and max_ns
\* is their maximum (0 when N is 0).
C1_FoldAggregates ==
    \A k \in Slots :
        (\A t \in Threads : ~Folding(t, k)) =>
            /\ Slot(k).calls = BagCardinality(Folds(k))
            /\ Slot(k).total_ns = BagTotal(Folds(k))
            /\ Slot(k).max_ns = BagMax(Folds(k))

\* three samples of different durations have been folded into one entry
C1_Witness ==
    \E k \in Slots :
        /\ \A t \in Threads : ~Folding(t, k)
        /\ BagCardinality(Folds(k)) = 3
        /\ Slot(k).total_ns = 3 /\ Slot(k).max_ns = 2
        /\ \A t \in Threads : pc[t] = "idle"

\* C2: when each of the two threads has completed M ScopedTimers on the same
\* entry, under any interleaving, calls is 2M and total_ns is the sum of all
\* 2M durations.
C2_NoLostUpdate ==
    \A k \in Slots : \A M \in 1..(MaxOps + 1) :
        (/\ \A t \in Threads : ~Folding(t, k)
         /\ \A t \in Threads : BagCardinality(hist[k + 1][t]) = M) =>
            /\ Slot(k).calls = NumThreads * M
            /\ Slot(k).total_ns = BagTotal(Folds(k))

\* both threads have completed two timers on one entry
C2_Witness ==
    \E k \in Slots :
        /\ \A t \in Threads : ~Folding(t, k) /\ BagCardinality(hist[k + 1][t]) = 2
        /\ Slot(k).calls = 4 /\ Slot(k).total_ns > 0

\* the live entries that carry name n
EntriesNamed(n) ==
    {g_scope_ptrs[i + 1] : i \in {j \in 0..(g_scope_ptrs_count - 1) :
                                     Slot(g_scope_ptrs[j + 1]).name = n}}

\* C3: GetScopeByName with a name that an earlier call registered (and no
\* ShutdownProfiler since) returns that same entry, creates no entry and
\* resets no counter; handles obtained for one name by different callers are
\* the same entry, so a fold through one is seen through the other.
C3_ReturnsExisting ==
    \A t \in Threads :
        (pc[t] = "gs_search" /\ pc'[t] # "gs_search" /\ EntriesNamed(th[t].name) # {}) =>
            /\ pc'[t] = "idle"
            /\ th'[t].found \in EntriesNamed(th[t].name)
            /\ regVars' = regVars

C3_HandlesAgree ==
    \A t, u \in Threads :
        (th[t].found # NULLPTR /\ th[u].found # NULLPTR
            /\ th[t].found_name = th[u].found_name) =>
                /\ th[t].found = th[u].found
                /\ Slot(th[t].found).name = th[t].found_name

C3_SameEntry == [][C3_ReturnsExisting]_vars /\ []C3_HandlesAgree

\* two threads hold the handle of one name, and the entry shows the sample
\* that one of them folded through it
C3_Witness ==
    \E t, u \in Threads :
        /\ t # u /\ pc[t] = "idle" /\ pc[u] = "idle"
        /\ th[t].found # NULLPTR /\ th[t].found = th[u].found
        /\ th[t].ops = 0 /\ th[u].ops = MaxOps - 1
        /\ Slot(th[t].found).calls = 1
        /\ g_scope_ptrs_count = 1

\* C4: no two live registry entries carry the same name, in any reachable
\* state, also when two threads make the first reference to a name at once.
C4_UniqueNames ==
    \A i, j \in 0..(g_scope_ptrs_count - 1) :
        i # j => Slot(g_scope_ptrs[i + 1]).name # Slot(g_scope_ptrs[j + 1]).name

\* one thread is creating the entry of a name while the other is inside
\* GetScopeByName with the same, not yet registered, name
C4_Witness ==
    \E t, u \in Threads :
        /\ t # u
        /\ pc[t] = "gs_alloc" /\ pc[u] = "gs_lock"
        /\ th[t].name = th[u].name
        /\ EntriesNamed(th[t].name) = {}

\* the names of the live entries
LiveNames == {Slot(g_scope_ptrs[i + 1]).name : i \in 0..(g_scope_ptrs_count - 1)}

RegistryFull == Cardinality(LiveNames) = FIXED_SCOPE_POOL_SIZE

\* C5: with FIXED_SCOPE_POOL_SIZE distinct names registered, GetScopeByName
\* with a further name returns the null handle in the step that finds the
\* pool exhausted, releasing the lock, and leaves the entries, their number,
\* names and counters as they were; with a registered name it still returns
\* that entry.
C5_FullStep ==
    \A t \in Threads :
        /\ (pc[t] = "gs_alloc" /\ pc'[t] # pc[t] /\ RegistryFull) =>
              /\ pc'[t] = "idle"
              /\ th'[t].found = NULLPTR
              /\ regVars' = regVars
              /\ g_spinlock' = 0
        /\ (pc[t] = "gs_search" /\ pc'[t] # pc[t] /\ RegistryFull) =>
              /\ regVars' = regVars
              /\ IF th[t].name \in LiveNames
                 THEN /\ pc'[t] = "idle"
                      /\ th'[t].found # NULLPTR
                      /\ Slot(th'[t].found).name = th[t].name
                      /\ g_spinlock' = 0
                 ELSE pc'[t] = "gs_alloc"

C5_FullRegistry == [][C5_FullStep]_vars

\* on a full registry one thread was refused a new name and the other was
\* given the entry of a registered one
C5_Witness ==
    \E t, u \in Threads :
        /\ pc[t] = "idle" /\ th[t].found = NULLPTR /\ th[t].found_name # NoName
        /\ pc[u] = "idle" /\ th[u].found # NULLPTR /\ th[u].found_name = 1
        /\ th[t].found_name \notin LiveNames
        /\ RegistryFull

\* the entries of thread t's copy that have been read completely
CopiedBy(t) ==
    IF pc[t] = "dn_copy" THEN 1..th[t].i
    ELSE IF pc[t] = "dn_rank" THEN 1..Len(th[t].copies)
    ELSE {}

\* the triple entry k holds once the fold that thread u has in progress on it
\* is finished
FoldResult(u, k) ==
    LET s == Slot(k)
        e == th[u].elapsed
    IN <<IF pc[u] \in {"st_calls_ld", "st_calls_st"} THEN s.calls + 1 ELSE s.calls,
         IF pc[u] = "st_max" THEN s.total_ns ELSE FoldTotal(s.total_ns, e),
         FoldMax(s.max_ns, e)>>

\* the triples a copy of entry k made under the registry lock can hold: those
\* the entry held with no fold in progress since the snapshot began, and the
\* one a fold now in progress is about to leave
Consistent(k) ==
    committed[k + 1] \cup
        {FoldResult(u, k) : u \in {v \in Threads : holder = v /\ Folding(v, k)}}

\* C6: every copied entry of a snapshot is a (calls, total, max) triple that
\* the entry held at an instant with no fold in progress, as a copy made
\* under the registry lock would be.
C6_ConsistentSnapshot ==
    \A t \in Threads : \A i \in CopiedBy(t) :
        Triple(th[t].copies[i]) \in Consistent(th[t].snapshot[i])

\* the positions of DumpNow at which it ranks, takes the time, formats or
\* uses the file system
IoPcs == {"dn_rank", "dn_mkdir", "dn_stat", "dn_remove", "dn_rename",
          "dn_fopen", "dn_time", "dn_fprintf", "dn_fclose"}

\* C7: a thread that is ranking, computing the timestamp, formatting or in a
\* file system call of a dump does not hold the registry lock, whether the
\* dump was started by DumpNow, TickIfNeeded or ShutdownProfiler.
C7_NoLockDuringIo ==
    \A t \in Threads : pc[t] \in IoPcs => holder # t

\* ShutdownProfiler's final dump, made after an earlier dump, writes a record
\* while the other thread holds the lock in the middle of a fold
C7_Witness ==
    \E t, u \in Threads :
        /\ pc[t] = "dn_fprintf" /\ th[t].caller = "ShutdownProfiler"
        /\ g_last_dump = DUMP_INTERVAL_SEC
        /\ holder = u /\ pc[u] = "st_total_st"

\* the totals of the records thread t has written, in the order written
WrittenTotals(t) == [i \in 1..Len(th[t].recs) |-> th[t].recs[i].total_ns]

\* C8: the records of one dump are in non-increasing order of total: of any
\* two records, the one written earlier has a total >= the one written later.
C8_RecordsRanked ==
    \A t \in Threads : \A i, j \in 1..Len(th[t].recs) :
        i < j => th[t].recs[i].total_ns >= th[t].recs[j].total_ns

\* the example registry has been dumped and its records are all written
C8_Witness ==
    /\ pc[MainThread] = "dn_fclose"
    /\ [k \in 1..Len(th[MainThread].copies) |-> th[MainThread].copies[k].total_ns] = ExampleTotals
    /\ WrittenTotals(MainThread) = <<100, 50, 10, 5>>

\* C9: of two records of one dump with equal totals, the one with the
\* smaller name is written first.
C9_TiesByName ==
    \A t \in Threads : \A i, j \in 1..Len(th[t].recs) :
        (i < j /\ th[t].recs[i].total_ns = th[t].recs[j].total_ns)
            => th[t].recs[i].scope < th[t].recs[j].scope

\* thread t's dump has returned
Returned(t) == written[t].status \in {"done", "skipped"}

\* the entries of thread t's snapshot that it writes no record for, once the
\* records are all written
LeftOut(t) == {th[t].idx[k] : k \in (th[t].limit + 1)..Len(th[t].idx)}

\* C10 as stated: a dump that has returned has written exactly min(n, 20)
\* records, n the number of entries of its snapshot.
C10_ExactlyMinRecords ==
    \A t \in Threads :
        Returned(t) => written[t].count = Min2(written[t].n, MAX_DUMP_SCOPES)

\* C10, amended: a dump whose log file opened writes exactly min(n, 20)
\* records, and every entry it leaves out has a total <= that of every
\* record written; a dump whose fopen fails writes no record.
C10_OpenedDumpWrites ==
    \A t \in Threads :
        /\ written[t].status = "done" => written[t].count = Min2(written[t].n, MAX_DUMP_SCOPES)
        /\ written[t].status = "skipped" => written[t].count = 0
        /\ pc[t] = "dn_fclose" =>
              /\ Len(th[t].recs) = Min2(Len(th[t].copies), MAX_DUMP_SCOPES)
              /\ written[t].count = Len(th[t].recs)
              /\ \A k \in LeftOut(t) : \A i \in 1..Len(th[t].recs) :
                    th[t].copies[k].total_ns <= th[t].recs[i].total_ns

\* a dump of more than 20 entries has written its records and has left out
\* an entry with a smaller total than every record, and one that ties with
\* the last record
C10_Witness ==
    LET t == MainThread
    IN /\ pc[t] = "dn_fclose"
       /\ Len(th[t].copies) > MAX_DUMP_SCOPES
       /\ Len(th[t].recs) = MAX_DUMP_SCOPES
       /\ \E k \in LeftOut(t) : \A i \in 1..Len(th[t].recs) :
              th[t].copies[k].total_ns < th[t].recs[i].total_ns
       /\ \E k \in LeftOut(t) :
              th[t].copies[k].total_ns = th[t].recs[MAX_DUMP_SCOPES].total_ns

\* the sum of the totals of the entries ks of a snapshot
RECURSIVE TotalOver(_, _)
TotalOver(copies, ks) ==
    IF ks = {} THEN 0
    ELSE LET k == CHOOSE x \in ks : TRUE
         IN copies[k].total_ns + TotalOver(copies, ks \ {k})

\* v is num / den rounded to an integer
IsNearest(v, num, den) == 2 * (v * den - num) <= den /\ 2 * (num - v * den) <= den

\* C11: the pct_total of every written record is 100 * total / grand_total,
\* to the three decimals printed, where grand_total is the sum of the totals
\* of all entries of the snapshot, those left out of the report included;
\* it is 0 when grand_total is 0.
C11_PctOfGrandTotal ==
    \A t \in Threads : \A i \in 1..Len(th[t].recs) :
        LET l == th[t].recs[i]
            g == TotalOver(th[t].copies, 1..Len(th[t].copies))
        IN /\ l.grand = g
           /\ IF g = 0 THEN l.pct_total = 0
              ELSE IsNearest(l.pct_total - 100000 * (l.total_ns \div g),
                             100000 * (l.total_ns % g), g)

\* a dump of more than 20 entries has written its records, an entry left
\* out has a total above 0, and a record has a share strictly between 0
\* and 100 percent
C11_Witness ==
    LET t == MainThread
    IN /\ pc[t] = "dn_fclose"
       /\ Len(th[t].copies) > MAX_DUMP_SCOPES
       /\ \E k \in LeftOut(t) : th[t].copies[k].total_ns > 0
       /\ \E i \in 1..Len(th[t].recs) :
              th[t].recs[i].pct_total > 0 /\ th[t].recs[i].pct_total < 100000

\* C12: the average of every written record is its total divided by its
\* call count, to the six decimals printed, and 0 when the call count is 0.
C12_AverageIsTotalOverCalls ==
    \A t \in Threads : \A i \in 1..Len(th[t].recs) :
        LET l == th[t].recs[i]
        IN IF l.calls = 0 THEN l.avg_ms = 0
           ELSE IsNearest(l.avg_ms, l.total_ns, l.calls)

\* the scope with three samples of 10 ms is reported with calls = 3,
\* total_ms = 30.000, avg_ms = 10.000000 and max_ms = 10.000
C12_Witness ==
    LET t == MainThread
    IN /\ pc[t] = "dn_fclose"
       /\ Len(th[t].recs) = 1
       /\ th[t].recs[1].calls = 3
       /\ th[t].recs[1].total_ms = 30000
       /\ th[t].recs[1].avg_ms = 10000000
       /\ th[t].recs[1].max_ms = 10000

\* no sample has been recorded: every registered entry has a call count of 0
NoSamples == \A k \in 1..g_fixed_scope_count : g_fixed_scope_pool[k].calls = 0

\* thread t is inside DumpNow, past the lock
InDump(t) == pc[t] \in IoPcs \cup {"dn_snapshot", "dn_copy"}

\* the bytes held by the base file and each generation, a missing file
\* counting as an empty one
Content(fs) == [g \in 0..MAX_ROTATE |-> IF fs[g] = NoFile THEN 0 ELSE fs[g]]

\* C13: while the registry holds no sample a dump writes no line and leaves
\* the content of the log file and of its generations as it was when the
\* dump began.
C13_NoSamplesNoOutput ==
    NoSamples =>
        \A t \in Threads : /\ written[t].count = 0
                           /\ InDump(t) => Content(fs_size) = Content(th[t].fs0)

\* the dump of the thirteen pre-created scopes, none of them sampled, has
\* written thirteen lines
C13_Witness ==
    /\ NoSamples
    /\ g_fixed_scope_count = 13
    /\ pc[MainThread] = "dn_fclose"
    /\ Len(th[MainThread].recs) = 13

\* the base file was there and larger than 2 MiB when thread t's dump began
WasOver(t) == th[t].fs0[0] # NoFile /\ th[t].fs0[0] > ROTATE_BYTES

\* the bytes of the lines thread t has written so far
RECURSIVE BatchBytes(_, _)
BatchBytes(recs, i) == IF i > Len(recs) THEN 0 ELSE LineBytes(recs[i]) + BatchBytes(recs, i + 1)

\* the positions of DumpNow between rotate_logs_if_needed and its return
AfterRotate == {"dn_fopen", "dn_time", "dn_fprintf", "dn_fclose"}

\* the generations after one shift of those a dump began with: 2 to 3, 1 to
\* 2, base to 1, the former generation 3 gone
ShiftedOnce(t, g) == fs_size[g] = th[t].fs0[g - 1]

\* C14: a dump that finds the base file larger than 2 MiB shifts the
\* generations by one, the former generation 3 being dropped, and writes its
\* batch to a fresh base file that holds that batch only; a dump that finds
\* the base missing or not larger than 2 MiB renames and removes nothing and
\* appends its batch to the base.
C14_RotateBeforeAppend ==
    \A t \in Threads :
        /\ pc[t] \in {"dn_remove", "dn_rename"} => WasOver(t)
        /\ pc[t] \in AfterRotate =>
              LET batch == BatchBytes(th[t].recs, 1)
              IN IF WasOver(t)
                 THEN /\ \A g \in 1..MAX_ROTATE : ShiftedOnce(t, g)
                      /\ fs_size[0] = IF pc[t] = "dn_fopen" THEN NoFile ELSE batch
                 ELSE /\ \A g \in 1..MAX_ROTATE : fs_size[g] = th[t].fs0[g]
                      /\ fs_size[0] = IF pc[t] = "dn_fopen" THEN th[t].fs0[0]
                                      ELSE Content(th[t].fs0)[0] + batch

\* a dump that found the base over the threshold and all three generations
\* there has written its batch
C14_Witness ==
    LET t == MainThread
    IN /\ pc[t] = "dn_fclose"
       /\ WasOver(t)
       /\ \A g \in 1..MAX_ROTATE : th[t].fs0[g] # NoFile
       /\ Len(th[t].recs) > 0
       /\ fs_size[0] = BatchBytes(th[t].recs, 1)

\* C15: a base file pushed past 2 MiB is rotated by exactly one cycle: the
\* dump that finds it shifts every generation by one position, and the dump
\* that follows a rotation does not rotate again; no dump leaves the base,
\* before its own batch, past the threshold.
C15_OneRotationCycle ==
    \A t \in Threads :
        /\ ~(written[t].cycle /\ written[t].after)
        /\ written[t].cycle <=> (pc[t] \in AfterRotate \cup {"dn_remove", "dn_rename"}
                                    /\ WasOver(t)) \/ (Returned(t) /\ written[t].cycle)
        /\ pc[t] = "dn_fclose" => fs_size[0] - BatchBytes(th[t].recs, 1) <= ROTATE_BYTES

\* a batch has pushed the base past the threshold, and the dump after it has
\* gone through a rotation cycle and written its own batch
C15_Witness ==
    LET t == MainThread
    IN /\ pc[t] = "dn_fclose"
       /\ th[t].fs0[0] > ROTATE_BYTES + 1
       /\ written[t].cycle /\ ~written[t].after
       /\ fs_size[1] = th[t].fs0[0]
       /\ fs_size[0] = BatchBytes(th[t].recs, 1)

\* thread t takes a step of DumpNow
DumpStep(t) == (pc[t] = "dn_lock" \/ InDump(t)) /\ <<pc[t], th[t]>>' # <<pc[t], th[t]>>

\* a step of a dump leaves the registry and the lifecycle state alone, and a
\* dump whose fopen fails returns to its caller without a line written
C16_DumpStep ==
    \A t \in Threads :
        DumpStep(t) =>
            /\ UNCHANGED <<regVars, g_running, enabled, video>>
            /\ (pc[t] = "dn_fopen" /\ ~(fs_ok /\ fs_dir)) =>
                  /\ pc'[t] = ReturnPc(t)
                  /\ written'[t].status = "skipped" /\ written'[t].count = 0

\* the lines of a finished batch are the entries of the registry as it is
ReportsRegistry(t) ==
    {<<th[t].recs[i].scope, th[t].recs[i].calls, th[t].recs[i].total_ns, th[t].recs[i].max_ns>> :
        i \in 1..Len(th[t].recs)}
    = {<<g_fixed_scope_pool[k].name, g_fixed_scope_pool[k].calls,
         g_fixed_scope_pool[k].total_ns, g_fixed_scope_pool[k].max_ns>> :
        k \in 1..g_fixed_scope_count}

\* C16: whatever the storage does during a dump (mkdir, stat, remove, rename
\* or fopen failing), the dump goes on to its return, it changes no registry
\* entry, no counter and not the lifecycle state, and a dump that gets its
\* file open afterwards reports the samples.
C16_FailureNonFatal ==
    /\ [][C16_DumpStep]_vars
    /\ [](\A t \in Threads :
            /\ InDump(t) => ENABLED Dump(t)
            /\ pc[t] = "dn_fclose" => ReportsRegistry(t))

\* the first dump has been skipped (the last-dump time is still that of the
\* start), and the second one, begun while the storage did not answer, has
\* written the samples
C16_Witness ==
    LET t == MainThread
    IN /\ pc[t] = "dn_fclose"
       /\ th[t].ops = MaxOps - 2
       /\ g_last_dump = 0
       /\ Len(th[t].recs) > 0
       /\ \E i \in 1..Len(th[t].recs) : th[t].recs[i].calls > 0

\* C17: InitProfiler called while the profiler is running changes nothing:
\* not the lifecycle state, the last-dump time, the registry or a counter.
C17_InitWhileRunning ==
    [][\A t \in Threads :
          (InitProfiler(t) /\ g_running) =>
              UNCHANGED <<regVars, lockVars, lifeVars, envVars, pc, histVars, written>>]_vars

\* InitProfiler has returned in a profiler that was started before the clock
\* of the initial state: the scopes are there and the last-dump time is the
\* old one
C17_Witness ==
    LET t == MainThread
    IN /\ pc[t] = "idle" /\ th[t].op = "InitProfiler"
       /\ g_running
       /\ g_last_dump = 0 /\ wall > DUMP_INTERVAL_SEC
       /\ g_fixed_scope_count > 0
       /\ \E k \in 1..g_fixed_scope_count : g_fixed_scope_pool[k].calls > 0

\* C18 as stated: InitProfiler called while the profiler is not running
\* leaves it running, with an empty registry and the last-dump time set to
\* the current time.
C18_InitClearsRegistry ==
    [][\A t \in Threads :
          (InitProfiler(t) /\ ~g_running) =>
              /\ g_running' /\ g_last_dump' = wall
              /\ g_fixed_scope_count' = 0 /\ g_scope_ptrs_count' = 0]_vars

\* C18, amended: InitProfiler called while the profiler is not running
\* leaves it running with the last-dump time set to the current time, and
\* leaves the registry as it was: the entries created before the call, their
\* counters and the handles to them stay.
C18_InitKeepsRegistry ==
    [][\A t \in Threads :
          (InitProfiler(t) /\ ~g_running) =>
              /\ g_running' /\ g_last_dump' = wall
              /\ UNCHANGED <<regVars, lockVars, enabled, video, envVars, pc, histVars, written>>]_vars

\* InitProfiler has started the profiler after the thread created a scope:
\* the handle it holds is still the entry of that name
C18_Witness ==
    LET t == MainThread
    IN /\ pc[t] = "idle" /\ th[t].op = "InitProfiler"
       /\ g_running /\ g_last_dump = wall
       /\ th[t].found # NULLPTR
       /\ th[t].found \in {g_scope_ptrs[i] : i \in 1..g_scope_ptrs_count}
       /\ Slot(th[t].found).name = th[t].found_name

\* the interval has elapsed since the last dump of a running profiler
TickDue == g_running /\ (wall - g_last_dump) >= DUMP_INTERVAL_SEC

\* the step is made inside a dump that TickIfNeeded started
TickDump(t) == (pc[t] = "dn_lock" \/ InDump(t)) /\ th[t].caller = "TickIfNeeded"

\* a call of TickIfNeeded that is not due changes nothing, and one that is
\* due starts one dump and changes nothing else
C19_TickStep ==
    \A t \in Threads :
        TickIfNeeded(t) =>
            /\ UNCHANGED <<regVars, lockVars, lifeVars, envVars, histVars, written>>
            /\ IF TickDue
               THEN pc'[t] = "dn_lock" /\ th'[t].caller = "TickIfNeeded"
               ELSE UNCHANGED pc /\ th'[t].caller = th[t].caller

\* a dump begins only in a step that is a call of one of the three functions
\* by an idle thread, and the dump of TickIfNeeded returns to the caller of
\* TickIfNeeded: it is not followed by a second one
C19_DumpStarts ==
    \A t \in Threads :
        /\ (pc'[t] = "dn_lock" /\ pc[t] # "dn_lock") =>
               /\ pc[t] = "idle"
               /\ th'[t].ops = th[t].ops - 1
               /\ th'[t].op \in {"TickIfNeeded", "DumpNow", "ShutdownProfiler"}
               /\ th'[t].caller = th'[t].op
               /\ th'[t].op = "TickIfNeeded" => TickDue
        /\ (TickDump(t) /\ ~TickDump(t)') => pc'[t] = "idle"
        /\ (TickDump(t) /\ pc'[t] # pc[t]) => pc'[t] # "dn_lock"

\* C19: TickIfNeeded makes no dump and changes nothing when the profiler is
\* not running or less than DUMP_INTERVAL_SEC seconds have passed since the
\* last dump; when it is running and the interval has passed it makes exactly
\* one dump cycle.  A dump is started by a call of TickIfNeeded, DumpNow or
\* ShutdownProfiler and by nothing else.
C19_TickOnlyWhenDue == [][C19_TickStep /\ C19_DumpStarts]_vars

\* the dump of a TickIfNeeded called exactly DUMP_INTERVAL_SEC seconds after
\* the last dump has written its lines and is about to close the file
C19_Witness ==
    LET t == MainThread
    IN /\ pc[t] = "dn_fclose" /\ th[t].caller = "TickIfNeeded"
       /\ th[t].tnow - g_last_dump = DUMP_INTERVAL_SEC
       /\ written[t].count > 0

\* C20: every dump that TickIfNeeded started leaves, when it returns, a
\* last-dump time less than DUMP_INTERVAL_SEC seconds old, whatever the
\* outcome of the append, so that the next TickIfNeeded makes no dump.
C20_TickResetsTimer ==
    [][\A t \in Threads :
          (TickDump(t) /\ pc'[t] = "idle") =>
              (wall' - g_last_dump') < DUMP_INTERVAL_SEC]_vars

\* the dump of a TickIfNeeded has returned without opening the log file and
\* the profiler is as due for a dump as before the call
C20_Witness ==
    LET t == MainThread
    IN /\ pc[t] = "idle" /\ th[t].op = "TickIfNeeded"
       /\ written[t].status = "skipped"
       /\ TickDue

\* the steps of ShutdownProfiler: called on a profiler that is not running it
\* changes nothing; the reset comes after the dump has returned and leaves no
\* entry; the return leaves the profiler not running; an entry created
\* afterwards, in a slot used before, starts from zero
C21_ShutdownStep ==
    \A t \in Threads :
        /\ (ShutdownProfiler_call(t) /\ ~g_running) =>
               UNCHANGED <<regVars, lockVars, lifeVars, envVars, pc, histVars, written>>
        /\ (ShutdownProfiler_call(t) /\ g_running) => pc'[t] = "dn_lock"
        /\ (pc[t] = "sd_reset" /\ pc'[t] # pc[t]) =>
               /\ written[t].status \in {"done", "skipped"}
               /\ g_fixed_scope_count' = 0 /\ g_scope_ptrs_count' = 0
               /\ g_fixed_scope_used' = {}
        /\ (pc[t] = "sd_done" /\ pc'[t] # pc[t]) => (pc'[t] = "idle" /\ ~g_running')
        /\ g_scope_ptrs_count' > g_scope_ptrs_count =>
               Triple(g_fixed_scope_pool'[g_scope_ptrs'[g_scope_ptrs_count'] + 1]) = <<0, 0, 0>>

\* the copies of the dump that ShutdownProfiler makes hold every entry that
\* was registered when it was called, with at least the samples it had then
C21_FinalSnapshot ==
    \A t \in Threads :
        (th[t].caller = "ShutdownProfiler" /\ pc[t] = "dn_rank") =>
            /\ Len(th[t].copies) >= Len(th[t].pool0)
            /\ \A i \in 1..Len(th[t].pool0) :
                   /\ th[t].copies[i].name = th[t].pool0[i].name
                   /\ th[t].copies[i].calls >= th[t].pool0[i].calls
                   /\ th[t].copies[i].total_ns >= th[t].pool0[i].total_ns
                   /\ th[t].copies[i].max_ns >= th[t].pool0[i].max_ns

\* C21: ShutdownProfiler on a profiler that is not running changes nothing.
\* On a running one it dumps first, every sample folded before the call being
\* in that snapshot, then empties the registry, so that a name obtained
\* afterwards starts with calls, total and max 0, and leaves the profiler not
\* running.
C21_ShutdownClears ==
    /\ [][C21_ShutdownStep]_vars
    /\ []C21_FinalSnapshot
    /\ [](\A t \in Threads : pc[t] = "sd_done" => g_scope_ptrs_count = 0)

\* after a shutdown whose dump wrote the samples, InitProfiler has set the
\* profiler running again with an empty registry
C21_Witness ==
    LET t == MainThread
    IN /\ pc[t] = "idle" /\ th[t].op = "InitProfiler"
       /\ g_running /\ g_fixed_scope_count = 0 /\ g_scope_ptrs_count = 0
       /\ written[t].status = "done" /\ written[t].count > 0
       /\ \E k \in 1..Len(g_fixed_scope_pool) : g_fixed_scope_pool[k].calls > 1

\* the positions of ~ScopedTimer from the lock to the unlock
FoldPcs == {"st_lock", "st_calls_ld", "st_calls_st", "st_total_ld", "st_total_st", "st_max"}

\* a timer whose clock did not move on has an elapsed time of 0, and each of
\* its steps leaves total_ns and max_ns of its entry as they are, the store
\* of line 140 adding 1 to calls
C22_ClampedStep ==
    \A t \in Threads :
        /\ (th'[t].drift <= 0) => th'[t].elapsed = 0
        /\ (pc[t] \in FoldPcs /\ th[t].drift <= 0 /\ pc'[t] # pc[t]) =>
               LET k == th[t].stats + 1
               IN /\ g_fixed_scope_pool'[k].total_ns = g_fixed_scope_pool[k].total_ns
                  /\ g_fixed_scope_pool'[k].max_ns = g_fixed_scope_pool[k].max_ns
                  /\ g_fixed_scope_pool'[k].calls =
                        g_fixed_scope_pool[k].calls + (IF pc[t] = "st_calls_st" THEN 1 ELSE 0)

\* C22: a ScopedTimer that reads, at its completion, a clock value earlier
\* than or equal to the one read at its construction folds an elapsed time
\* of 0: calls grows by 1, total_ns and max_ns stay; the subtraction does not
\* wrap around.
C22_ClockAnomalyClamped == [][C22_ClampedStep]_vars

\* a timer whose clock went back is about to finish its fold into an entry
\* that held a sample before: calls has been counted, the total is the old one
C22_Witness ==
    \E t \in Threads :
        /\ pc[t] = "st_max" /\ th[t].drift < 0
        /\ Slot(th[t].stats).calls = 2
        /\ Slot(th[t].stats).total_ns > 0
        /\ Slot(th[t].stats).total_ns = Slot(th[t].stats).max_ns

\* C23: a ScopedTimer constructed with a null handle does nothing when it
\* completes: the step takes no lock, leaves every entry and counter, the
\* registry and the lifecycle state as they are, and the thread is back in
\* its caller.
C23_NullTimerNoOp ==
    [][\A t \in Threads :
          (th[t].live /\ th[t].stats = NULLPTR /\ th'[t] # th[t]) =>
              /\ pc[t] = "idle" /\ pc'[t] = "idle" /\ ~th'[t].live
              /\ UNCHANGED <<regVars, lockVars, lifeVars, envVars, histVars, written>>]_vars

\* a thread that holds a null handle has run a timer with it to its end
C23_Witness ==
    \E t \in Threads :
        /\ pc[t] = "idle" /\ ~th[t].live
        /\ th[t].found = NULLPTR
        /\ th[t].ops = MaxOps - 1
        /\ g_spinlock = 0
        /\ \A k \in 1..g_fixed_scope_count : g_fixed_scope_pool[k].calls = 0

\* the sum of the call counts of the slots 0..k-1
RECURSIVE CallsUpTo(_)
CallsUpTo(k) == IF k = 0 THEN 0 ELSE g_fixed_scope_pool[k].calls + CallsUpTo(k - 1)

\* the timers that thread t has constructed on a live handle and whose
\* destructor has stored the new call count
Counted(t) ==
    IF th[t].found = NULLPTR THEN 0
    ELSE (MaxOps - th[t].ops)
            - (IF th[t].live /\ pc[t] \in {"idle", "st_lock", "st_calls_ld", "st_calls_st"}
               THEN 1 ELSE 0)

RECURSIVE CountedUpTo(_)
CountedUpTo(t) == IF t = 0 THEN 0 ELSE Counted(t) + CountedUpTo(t - 1)

\* the constructor folds nothing, and a step of the destructor changes the
\* timer's entry only, its name never and its call count in the one store of
\* line 140, by 1; the last step ends the timer
C24_TimerStep ==
    \A t \in Threads :
        /\ (~th[t].live /\ th'[t].live) => UNCHANGED <<regVars, lockVars>>
        /\ (pc[t] \in FoldPcs /\ pc'[t] # pc[t]) =>
               /\ \A j \in 1..Len(g_fixed_scope_pool) :
                      \/ g_fixed_scope_pool'[j] = g_fixed_scope_pool[j]
                      \/ /\ j = th[t].stats + 1
                         /\ g_fixed_scope_pool'[j].name = g_fixed_scope_pool[j].name
                         /\ g_fixed_scope_pool'[j].calls =
                               g_fixed_scope_pool[j].calls + (IF pc[t] = "st_calls_st" THEN 1 ELSE 0)
               /\ Len(g_fixed_scope_pool') = Len(g_fixed_scope_pool)
               /\ UNCHANGED <<g_fixed_scope_used, g_fixed_scope_count, g_scope_ptrs,
                              g_scope_ptrs_count>>
        /\ (pc[t] = "st_max" /\ pc'[t] # pc[t]) => (pc'[t] = "idle" /\ ~th'[t].live)

\* C24: every ScopedTimer with a live handle folds exactly once, when it
\* completes: the call counts of the entries add up to the number of timers
\* that have got as far as the store of the count, the construction folds
\* nothing and the fold touches no entry but the timer's own.
C24_OneFoldPerTimer ==
    /\ [][C24_TimerStep]_vars
    /\ [](CallsUpTo(Len(g_fixed_scope_pool)) = CountedUpTo(NumThreads))

\* both threads have completed every timer they may start, on two different
\* entries
C24_Witness ==
    /\ \A t \in Threads : pc[t] = "idle" /\ ~th[t].live /\ th[t].ops = 0
    /\ \E j, k \in Slots : j # k /\ Slot(j).calls = MaxOps /\ Slot(k).calls = MaxOps

\* C25: from its creation to the next ShutdownProfiler an entry keeps its
\* place and its name, and its calls, total_ns and max_ns never decrease,
\* whatever step is taken: of a fold, of GetScopeByName, InitProfiler,
\* PrecreateScopes, TickIfNeeded or DumpNow.
C25_CountersMonotonic ==
    [][\A i \in 1..Min2(g_scope_ptrs_count, g_scope_ptrs_count') :
          LET k == g_scope_ptrs[i] + 1
          IN /\ g_scope_ptrs'[i] = g_scope_ptrs[i]
             /\ g_fixed_scope_pool'[k].name = g_fixed_scope_pool[k].name
             /\ g_fixed_scope_pool'[k].calls >= g_fixed_scope_pool[k].calls
             /\ g_fixed_scope_pool'[k].total_ns >= g_fixed_scope_pool[k].total_ns
             /\ g_fixed_scope_pool'[k].max_ns >= g_fixed_scope_pool[k].max_ns]_vars

\* PrecreateScopes has returned after a timer was folded into the first
\* scope, which a dump then reported: the scope has its old sample and the
\* new one
C25_Witness ==
    LET t == MainThread
    IN /\ pc[t] = "idle" /\ th[t].op = "PrecreateScopes"
       /\ g_scope_ptrs_count = Len(PrecreatedNames)
       /\ Slot(0).name = 1 /\ Slot(0).calls = 2
       /\ written[t].status = "done"

\* the positions at which a thread waits for the registry lock
LockPcs == {"gs_lock", "st_lock", "dn_lock", "sd_lock"}

\* C26: with a fair scheduler and finitely many calls per thread, a thread
\* that is inside GetScopeByName, the completion of a ScopedTimer, DumpNow, TickIfNeeded or ShutdownProfiler gets back to its
\* caller; the lock is free whenever no thread is inside a call, and a thread
\* outside a call never holds it.
C26_EveryCallReturns ==
    /\ \A t \in Threads : (pc[t] # "idle") ~> (pc[t] = "idle")
    /\ []((\A t \in Threads : pc[t] = "idle") => (g_spinlock = 0 /\ holder = NoThread))
    /\ [](\A t \in Threads : holder = t => pc[t] # "idle")

\* the main thread waits in ShutdownProfiler for the lock that the other
\* thread holds in the middle of a fold
C26_Witness ==
    \E t \in Threads \ {MainThread} :
        /\ pc[MainThread] = "sd_lock"
        /\ holder = t /\ g_spinlock = 1
        /\ pc[t] = "st_total_st"

\* the common scopes that are registered
CommonLive == {i \in 1..Len(PrecreatedNames) : PrecreatedNames[i] \in LiveNames}

\* thread t has returned from a call of PrecreateScopes
Precreated(t) == pc[t] = "idle" /\ th[t].op = "PrecreateScopes"

\* a step of a call of PrecreateScopes that is not the thread's first one
\* adds no entry, changes no counter and leaves the lifecycle state and the
\* last-dump time as they are
C27_FurtherCall ==
    \A t \in Threads :
        ((Precreated(t) \/ th[t].ops < MaxOps - 1) /\ <<pc[t], th[t]>>' # <<pc[t], th[t]>>) =>
            UNCHANGED <<regVars, lifeVars>>

LockedPcs == {"gs_search", "gs_alloc",
              "st_calls_ld", "st_calls_st", "st_total_ld", "st_total_st", "st_max",
              "dn_snapshot", "sd_reset"}

\* C28: at most one thread at a time is inside a section guarded by the
\* registry lock, and that thread is the one that took the lock.
C28_MutualExclusion ==
    /\ Cardinality({t \in Threads : pc[t] \in LockedPcs}) <= 1
    /\ \A t \in Threads : pc[t] \in LockedPcs => (g_spinlock = 1 /\ holder = t)

\* one thread is resetting the pool in ShutdownProfiler while the other waits
\* for the lock at the start of a dump
C28_Witness ==
    \E t, u \in Threads :
        /\ t # u
        /\ pc[t] = "sd_reset" /\ holder = t
        /\ pc[u] = "dn_lock"

\* C29: no step of a dump, whether the file opens or not, changes the
\* registry: the entries and their calls, total_ns and max_ns are after
\* DumpNow what they were before it, apart from the folds of other threads;
\* so after any number of dumps an entry still holds every sample folded
\* since its creation.
C29_DumpKeepsRegistry ==
    /\ [][\A t \in Threads :
             DumpStep(t) => UNCHANGED <<g_fixed_scope_pool, g_fixed_scope_used,
                                        g_fixed_scope_count, g_scope_ptrs, g_scope_ptrs_count>>]_vars
    /\ [](\A t \in Threads : \A k \in Slots :
             (written[t].status \in {"done", "skipped"} /\ \A u \in Threads : ~Folding(u, k)) =>
                 Triple(Slot(k)) = <<BagCardinality(Folds(k)), BagTotal(Folds(k)), BagMax(Folds(k))>>)

\* DumpNow has returned after writing the sample that the other thread
\* folded, and the entry still holds it
C29_Witness ==
    LET t == MainThread
    IN /\ pc[t] = "idle" /\ th[t].op = "DumpNow"
       /\ written[t].status = "done" /\ written[t].count = MaxNames
       /\ g_fixed_scope_count = MaxNames
       /\ Slot(0).calls > 0 /\ Slot(0).total_ns > 0
       /\ \A u \in Threads : pc[u] = "idle" /\ th[u].ops = 0

\* C30: a fold made through a handle changes the counters of the entry that
\* carries the name the handle was obtained for, and of no other, also when
\* ShutdownProfiler ran between the construction of the timer, or the
\* GetScopeByName before it, and its completion.
C30_StaleHandleHarmless ==
    [][\A t \in Threads :
          (/\ pc[t] \in FoldPcs /\ pc'[t] # pc[t]
           /\ th[t].stats = th[t].found
           /\ g_fixed_scope_pool' # g_fixed_scope_pool) =>
              Slot(th[t].stats).name = th[t].found_name]_vars

\* the only registered entry was created after the shutdown, under a name
\* for which no timer was ever constructed, and it holds a sample
C30_Witness ==
    /\ g_scope_ptrs_count = 1 /\ g_scope_ptrs[1] = 0
    /\ Slot(0).name = 2 /\ Slot(0).calls = 1
    /\ \A t \in Threads : pc[t] = "idle" /\ ~th[t].live
    /\ \A t \in Threads \ {MainThread} : th[t].found = 0 /\ th[t].found_name = 1

\* C31: of two threads that call TickIfNeeded once the interval has elapsed
\* at most one makes the dump: no two threads are inside a dump started by
\* TickIfNeeded at the same time, so that their rotation and append steps do
\* not interleave and the batch is not appended twice.
C31_OneDumpPerInterval ==
    Cardinality({t \in Threads : TickDump(t)}) <= 1

\* both threads have made the dump of the same second and each has written
\* every entry to the log file
C31_Witness ==
    /\ \A t \in Threads :
          /\ pc[t] = "idle" /\ th[t].op = "TickIfNeeded"
          /\ written[t].status = "done" /\ written[t].count = MaxNames
    /\ g_last_dump = wall

\* the main thread is back from SetEnabled(e)
SetEnabledReturned(e) ==
    pc[MainThread] = "idle" /\ th[MainThread].op = "SetEnabled" /\ th[MainThread].e = e

\* C32: the flag of the legacy object tracks the lifecycle whatever direct
\* calls of InitProfiler, PrecreateScopes and ShutdownProfiler are made in
\* between: between calls IsEnabled() equals the running state, after
\* SetEnabled(true) has returned the profiler is running and after
\* SetEnabled(false) has returned it is not.
C32_FlagTracksLifecycle ==
    /\ pc[MainThread] = "idle" => (IsEnabled <=> g_running)
    /\ SetEnabledReturned(TRUE) => g_running
    /\ SetEnabledReturned(FALSE) => ~g_running

\* SetEnabled(true) has returned, the flag is set and the profiler is not
\* running
C32_Witness ==
    SetEnabledReturned(TRUE) /\ IsEnabled /\ ~g_running

\* the draw thread is in the rendering section while the main thread
\* converts the textures
BothInside == pc[MainThread] = "dr_convert" /\ pc[DrawThread] = "dt_render"

\* C33: the draw thread calls LWP_MutexLock and LWP_MutexUnlock only with a
\* handle of the existing mutex, never with one that Execute's teardown has
\* destroyed or set to LWP_MUTEX_NULL, and the texture conversion of Draw
\* and the rendering section of draw_thread never run at the same time.
C33_NoUseAfterDestroy ==
    /\ video.used \in {"none", "live"}
    /\ ~BothInside

\* the teardown is over, the join has returned, and the draw thread has
\* passed LWP_MUTEX_NULL to its last call on the mutex
C33_Witness ==
    /\ pc[MainThread] = "ex_done" /\ pc[DrawThread] = "dt_exit"
    /\ ~video.vidthread
    /\ video.used = "null"

\* the draw thread, once started, ends and the join returns
C33_JoinReturns == video.vidthread ~> (pc[MainThread] = "ex_done")

\* the two sections exclude each other
C33_SectionsExclusive == ~BothInside

====
